---- MODULE Spec2Model ----
(***************************************************************************)
(* Model of the research-paper-to-project-plan pipeline:                   *)
(*   pdf_processor.PDFProcessor, ai_analyzer.AIAnalyzer,                   *)
(*   project_planner.ProjectPlanner and app.ResearchAnalyzerApp.           *)
(*                                                                         *)
(* Python str values are TLA+ strings; a Python dict is a function whose   *)
(* DOMAIN is the set of keys that are present; a Python list is a          *)
(* sequence.  Python floats in the phase-duration arithmetic are modelled  *)
(* as exact rationals (numerator, denominator): for every duration and     *)
(* multiplier the model can draw, the IEEE double product                  *)
(* base * (duration / total) * multiplier rounds to the same integer as    *)
(* the exact rational, ties included.                                      *)
(***************************************************************************)
EXTENDS Integers, Sequences, FiniteSets, TLC

VARIABLES
    phase_templates,   \* ProjectPlanner.phase_templates
    paper_analysis,    \* argument of generate_plan / st.session_state.paper_analysis
    project_settings,  \* argument of generate_plan / st.session_state.project_settings
    project_plan,      \* value returned by generate_plan, NoPlan before the call
    history,           \* SpecCalls: request -> plan returned by its first call
    environ,           \* os.environ
    widgets,           \* the values of the sidebar widgets
    session_state,     \* st.session_state
    last_run,          \* what analyze_paper of app.py did in this script run
    results_shown,     \* render_results_section was called in this script run
    diagrams           \* value returned by generate_diagrams, NoDiagrams before

app_vars == <<environ, widgets, session_state, last_run, results_shown, diagrams>>

vars == <<phase_templates, paper_analysis, project_settings, project_plan,
          history, app_vars>>

----------------------------------------------------------------------------
(* Python str operations.  upper and lower map the string character by
   character, splitting it in halves. *)

LowerAlpha == "abcdefghijklmnopqrstuvwxyz"
UpperAlpha == "ABCDEFGHIJKLMNOPQRSTUVWXYZ"

CharAt(s, i) == SubSeq(s, i, i)

\* str.upper() on the characters a-z, str.lower() on A-Z
UpperMap ==
    [c \in {CharAt(LowerAlpha, i) : i \in 1..26} |->
        CharAt(UpperAlpha, CHOOSE i \in 1..26 : CharAt(LowerAlpha, i) = c)]
LowerMap ==
    [c \in {CharAt(UpperAlpha, i) : i \in 1..26} |->
        CharAt(LowerAlpha, CHOOSE i \in 1..26 : CharAt(UpperAlpha, i) = c)]

\* one character of str.upper(): a-z are mapped, everything else is kept
UpperChar(c) == IF c \in DOMAIN UpperMap THEN UpperMap[c] ELSE c

\* one character of str.lower()
LowerChar(c) == IF c \in DOMAIN LowerMap THEN LowerMap[c] ELSE c

RECURSIVE upper(_)
upper(s) ==
    IF Len(s) = 0 THEN ""
    ELSE IF Len(s) = 1 THEN UpperChar(s)
    ELSE upper(SubSeq(s, 1, Len(s) \div 2))
         \o upper(SubSeq(s, Len(s) \div 2 + 1, Len(s)))

RECURSIVE lower(_)
lower(s) ==
    IF Len(s) = 0 THEN ""
    ELSE IF Len(s) = 1 THEN LowerChar(s)
    ELSE lower(SubSeq(s, 1, Len(s) \div 2))
         \o lower(SubSeq(s, Len(s) \div 2 + 1, Len(s)))

\* Python "sub in s" for two str values
Contains(s, sub) ==
    \E i \in 0..(Len(s) - Len(sub)) : SubSeq(s, i + 1, i + Len(sub)) = sub

\* Python s.startswith(pre)
StartsWith(s, pre) == Len(s) >= Len(pre) /\ SubSeq(s, 1, Len(pre)) = pre

\* Python s * n
RECURSIVE repeat(_, _)
repeat(s, n) ==
    IF n <= 0 THEN ""
    ELSE IF n = 1 THEN s
    ELSE repeat(s, n \div 2) \o repeat(s, n - n \div 2)

\* Python sep.join(list)
RECURSIVE join(_, _)
join(sep, list) ==
    IF Len(list) = 0 THEN ""
    ELSE IF Len(list) = 1 THEN list[1]
    ELSE list[1] \o sep \o join(sep, Tail(list))

\* Python list[:n]
Prefix(list, n) == SubSeq(list, 1, IF Len(list) < n THEN Len(list) ELSE n)

\* the elements of a list
Range(list) == {list[i] : i \in 1..Len(list)}

\* Python dict.get(key, default)
get(d, key, default) == IF key \in DOMAIN d THEN d[key] ELSE default

\* the empty dict {}
EmptyDict == [k \in {} |-> k]

----------------------------------------------------------------------------
(* ProjectPlanner._load_phase_templates *)

Template(name, base_duration, objectives, core_tasks) ==
    [name |-> name, base_duration |-> base_duration,
     objectives |-> objectives, core_tasks |-> core_tasks]

_load_phase_templates ==
    "NLP" :> <<
        Template("Foundation and Setup", 3,
            "Establish theoretical understanding and development environment",
            <<"Set up development environment", "Literature review",
              "Dataset preparation", "Basic NLP understanding">>),
        Template("Core Component Development", 6,
            "Build fundamental NLP processing capabilities",
            <<"Text preprocessing pipeline", "Basic NLP models",
              "Feature extraction", "Initial testing">>),
        Template("Advanced Implementation", 4,
            "Implement state-of-the-art approaches",
            <<"Neural network implementation", "Advanced model training",
              "Optimization", "Performance tuning">>),
        Template("Application Development", 4,
            "Create practical applications",
            <<"User interface development", "Application logic",
              "Integration testing", "User experience optimization">>),
        Template("Evaluation and Deployment", 3,
            "Testing, optimization, and deployment",
            <<"Comprehensive evaluation", "Performance optimization",
              "Documentation", "Deployment">>) >>
    @@ "Computer Vision" :> <<
        Template("Environment and Data Setup", 3,
            "Prepare development environment and datasets",
            <<"Development environment setup", "Image dataset collection",
              "Data preprocessing", "Baseline model research">>),
        Template("Model Development", 6,
            "Implement core computer vision models",
            <<"Image preprocessing pipeline", "CNN architecture implementation",
              "Model training", "Initial evaluation">>),
        Template("Advanced Techniques", 4,
            "Implement advanced computer vision techniques",
            <<"Transfer learning", "Data augmentation",
              "Advanced architectures", "Performance optimization">>),
        Template("Application Integration", 4,
            "Build practical applications",
            <<"Real-time processing", "User interface",
              "API development", "System integration">>),
        Template("Testing and Deployment", 3,
            "Final testing and deployment",
            <<"Performance testing", "User acceptance testing",
              "Production deployment", "Monitoring setup">>) >>
    @@ "Machine Learning" :> <<
        Template("Data and Environment Preparation", 3,
            "Setup and data understanding",
            <<"Environment configuration", "Data collection and exploration",
              "Feature engineering", "Data quality assessment">>),
        Template("Model Development", 6,
            "Develop and train ML models",
            <<"Algorithm selection", "Model implementation",
              "Training and validation", "Hyperparameter tuning">>),
        Template("Advanced Modeling", 4,
            "Implement advanced ML techniques",
            <<"Ensemble methods", "Deep learning integration",
              "Model optimization", "Cross-validation">>),
        Template("System Integration", 4,
            "Build production system",
            <<"API development", "Database integration",
              "Real-time prediction", "System architecture">>),
        Template("Production and Monitoring", 3,
            "Deploy and monitor system",
            <<"Production deployment", "Performance monitoring",
              "Model maintenance", "Documentation">>) >>

----------------------------------------------------------------------------
(* ProjectPlanner._generate_phases *)

\* the two keyword tests in the opposite order
template_key_vision_first(domain) ==
    IF Contains(upper(domain), "VISION") \/ Contains(upper(domain), "IMAGE")
    THEN "Computer Vision"
    ELSE IF Contains(upper(domain), "NLP") \/ Contains(upper(domain), "NATURAL LANGUAGE")
    THEN "NLP"
    ELSE "Machine Learning"

\* lines 248-253: the template family chosen from the domain string
template_key(domain) ==
    IF Contains(upper(domain), "NLP") \/ Contains(upper(domain), "NATURAL LANGUAGE")
    THEN "NLP"
    ELSE IF Contains(upper(domain), "VISION") \/ Contains(upper(domain), "IMAGE")
    THEN "Computer Vision"
    ELSE "Machine Learning"

\* the table with the Expert entry mistyped as 0.6
complexity_multiplier_typo(complexity) ==
    get("Beginner" :> <<8, 10>> @@ "Intermediate" :> <<10, 10>>
        @@ "Advanced" :> <<13, 10>> @@ "Expert" :> <<6, 10>>,
        complexity, <<10, 10>>)

\* lines 258-263: the float multiplier m as the rational <<n, d>> with m = n/d
complexity_multiplier(complexity) ==
    get("Beginner" :> <<8, 10>> @@ "Intermediate" :> <<10, 10>>
        @@ "Advanced" :> <<13, 10>> @@ "Expert" :> <<16, 10>>,
        complexity, <<10, 10>>)

RECURSIVE SumBase(_)
SumBase(base_phases) ==
    IF Len(base_phases) = 0 THEN 0
    ELSE Head(base_phases).base_duration + SumBase(Tail(base_phases))

\* line 266
total_base_duration(base_phases) == SumBase(base_phases)

\* rounding that sends a tie upwards instead of to the even neighbour
round_half_up(num, den) == (2 * num + den) \div (2 * den)

\* Python round(x) of the non-negative rational x = num/den: nearest
\* integer, a tie going to the even neighbour
round(num, den) ==
    LET q == num \div den
        r == num % den
    IN  IF 2 * r < den THEN q
        ELSE IF 2 * r > den THEN q + 1
        ELSE IF q % 2 = 0 THEN q ELSE q + 1

\* the effect if max(1, x) were x
max_without_floor(a, b) == b

max(a, b) == IF a >= b THEN a ELSE b

\* lines 267, 273-275: base * (duration / total) * multiplier, rounded,
\* at least 1
adjusted_duration(base_duration, duration, total, mult) ==
    max(1, round(base_duration * duration * mult[1], total * mult[2]))

\* end_month without the "- 1": the phase would end where the next starts
end_month_exclusive(current_month, adjusted) == current_month + adjusted

\* line 288
end_month_of(current_month, adjusted) == current_month + adjusted - 1

\* the loop without the "not in" test: every item is appended
RECURSIVE AppendTasksUnchecked(_, _, _, _)
AppendTasksUnchecked(tasks, items, before, after) ==
    IF Len(items) = 0 THEN tasks
    ELSE AppendTasksUnchecked(Append(tasks, before \o Head(items) \o after),
                              Tail(items), before, after)

\* lines 309-311 and 315-317: one loop appending a task per item not yet
\* mentioned in the tasks joined by spaces
RECURSIVE AppendTasks(_, _, _, _)
AppendTasks(tasks, items, before, after) ==
    IF Len(items) = 0 THEN tasks
    ELSE AppendTasks(
            IF ~Contains(lower(join(" ", tasks)), lower(Head(items)))
            THEN Append(tasks, before \o Head(items) \o after)
            ELSE tasks,
            Tail(items), before, after)

\* lines 300-319
_customize_phase_tasks(base_tasks, analysis, phase_name) ==
    LET key_concepts      == get(analysis, "key_concepts", <<>>)
        tech_requirements == get(analysis, "technical_requirements", EmptyDict)
        frameworks        == get(tech_requirements, "frameworks", <<>>)
        with_concepts     == AppendTasks(base_tasks, Prefix(key_concepts, 3),
                                         "Implement ", " functionality")
    IN  AppendTasks(with_concepts, Prefix(frameworks, 2),
                    "Integrate ", " framework")

\* lines 323-354
base_deliverables ==
    "Foundation and Setup" :> <<
        "Development environment setup", "Literature review document",
        "Dataset preparation report", "Technical specification document">>
    @@ "Core Component Development" :> <<
        "Core processing pipeline", "Basic model implementations",
        "Initial testing results", "Performance baseline report">>
    @@ "Advanced Implementation" :> <<
        "Advanced model implementations", "Optimization results",
        "Performance improvement report", "Technical documentation">>
    @@ "Application Development" :> <<
        "User interface prototype", "Application backend",
        "Integration testing report", "User documentation">>
    @@ "Evaluation and Deployment" :> <<
        "Final evaluation report", "Optimized production system",
        "Deployment documentation", "User manual">>

\* lines 321-370
_generate_phase_deliverables(phase_name, analysis) ==
    LET deliverables == get(base_deliverables, phase_name, <<"Phase deliverables">>)
        domain       == get(analysis, "domain", "")
    IN  IF Contains(upper(domain), "NLP")
        THEN IF Contains(phase_name, "Core")
             THEN deliverables \o <<"Text preprocessing pipeline",
                                    "Language model implementation">>
             ELSE deliverables
        ELSE IF Contains(upper(domain), "Vision")
        THEN IF Contains(phase_name, "Core")
             THEN deliverables \o <<"Image preprocessing pipeline",
                                    "Computer vision model">>
             ELSE deliverables
        ELSE deliverables

\* lines 374-400
base_criteria ==
    "Foundation and Setup" :> <<
        "Functional development environment", "Complete dataset preparation",
        "Clear project roadmap">>
    @@ "Core Component Development" :> <<
        "Working core components", "Baseline performance achieved",
        "Successful initial testing">>
    @@ "Advanced Implementation" :> <<
        "Improved model performance", "Optimization targets met",
        "Advanced features implemented">>
    @@ "Application Development" :> <<
        "Functional user interface", "Complete application features",
        "User acceptance testing passed">>
    @@ "Evaluation and Deployment" :> <<
        "Performance targets achieved", "Successful deployment",
        "Complete documentation">>

\* lines 372-411
_generate_success_criteria(phase_name, analysis) ==
    LET criteria   == get(base_criteria, phase_name, <<"Phase objectives met">>)
        complexity == get(analysis, "complexity", "Intermediate")
    IN  IF complexity = "Advanced"
        THEN Append(criteria, "Advanced performance benchmarks achieved")
        ELSE IF complexity = "Expert"
        THEN Append(criteria, "State-of-the-art performance achieved")
        ELSE criteria

\* lines 272-296: the loop over the template entries from entry i on, with
\* the running current_month
RECURSIVE PhaseLoop(_, _, _, _, _, _, _)
PhaseLoop(base_phases, i, current_month, analysis, duration, total, mult) ==
    IF i > Len(base_phases) THEN <<>>
    ELSE LET phase_template == base_phases[i]
             adjusted == adjusted_duration(phase_template.base_duration,
                                           duration, total, mult)
             phase == [
                 name             |-> phase_template.name,
                 duration         |-> ToString(adjusted) \o " months",
                 start_month      |-> current_month,
                 end_month        |-> end_month_of(current_month, adjusted),
                 objectives       |-> phase_template.objectives,
                 tasks            |-> _customize_phase_tasks(
                                          phase_template.core_tasks, analysis,
                                          phase_template.name),
                 deliverables     |-> _generate_phase_deliverables(
                                          phase_template.name, analysis),
                 success_criteria |-> _generate_success_criteria(
                                          phase_template.name, analysis) ]
         IN  <<phase>> \o PhaseLoop(base_phases, i + 1, current_month + adjusted,
                                    analysis, duration, total, mult)

\* lines 243-298
_generate_phases(templates, analysis, duration, complexity) ==
    LET domain      == get(analysis, "domain", "Machine Learning")
        base_phases == get(templates, template_key(domain),
                           templates["Machine Learning"])
    IN  PhaseLoop(base_phases, 1, 1, analysis, duration,
                  total_base_duration(base_phases),
                  complexity_multiplier(complexity))

----------------------------------------------------------------------------
(* The rest of ProjectPlanner.generate_plan *)

\* the effect if line 443 kept the list as it is: the number of times each
\* element occurs in it
list_without_set(xs) ==
    [x \in Range(xs) |-> Cardinality({i \in 1..Len(xs) : xs[i] = x})]

\* Python list(set(xs)): the distinct elements of xs, each once.  The order
\* of the resulting list is not specified by Python, so the list is kept as
\* the number of occurrences of each element.
list_of_set(xs) == [x \in Range(xs) |-> 1]

\* lines 413-445
_generate_tech_stack(analysis) ==
    LET tech_requirements == get(analysis, "technical_requirements", EmptyDict)
        domain == get(analysis, "domain", "")
        stack == [
            programming_languages |-> <<"Python">>,
            core_libraries        |-> <<"NumPy", "Pandas", "Matplotlib">>,
            development_tools     |-> <<"Jupyter Notebook", "Git", "VS Code">>,
            testing               |-> <<"Pytest", "Unit Testing">>,
            deployment            |-> <<"Docker", "Flask/FastAPI">> ]
        domain_stack ==
            IF Contains(upper(domain), "NLP")
            THEN stack @@ [
                ml_frameworks |-> <<"TensorFlow", "PyTorch",
                                    "Transformers (Hugging Face)">>,
                nlp_libraries |-> <<"spaCy", "NLTK", "Gensim">> ]
            ELSE IF Contains(upper(domain), "Vision")
            THEN stack @@ [
                ml_frameworks |-> <<"TensorFlow", "PyTorch", "OpenCV">>,
                cv_libraries  |-> <<"PIL", "scikit-image", "albumentations">> ]
            ELSE stack @@ [
                ml_frameworks |-> <<"Scikit-learn", "TensorFlow", "PyTorch">> ]
        frameworks == get(tech_requirements, "frameworks", <<>>)
    IN  IF Len(frameworks) > 0
        THEN [domain_stack EXCEPT !.ml_frameworks =
                 list_of_set(domain_stack.ml_frameworks \o Prefix(frameworks, 3))]
        ELSE domain_stack

\* lines 447-471
_generate_architecture(analysis) ==
    LET domain == get(analysis, "domain", "")
    IN  IF Contains(upper(domain), "NLP")
        THEN [ data_layer        |-> "Text preprocessing and tokenization pipeline",
               model_layer       |-> "Neural language models and transformers",
               application_layer |-> "NLP applications and APIs",
               interface_layer   |-> "Web interface and user interaction" ]
        ELSE IF Contains(upper(domain), "Vision")
        THEN [ data_layer        |-> "Image preprocessing and augmentation pipeline",
               model_layer       |-> "Convolutional neural networks and vision models",
               application_layer |-> "Computer vision applications and APIs",
               interface_layer   |-> "Image upload interface and visualization" ]
        ELSE [ data_layer        |-> "Data preprocessing and feature engineering",
               model_layer       |-> "Machine learning models and algorithms",
               application_layer |-> "Prediction services and APIs",
               interface_layer   |-> "Dashboard and user interface" ]

\* lines 473-498
_generate_resource_requirements(analysis, team_size) ==
    LET complexity == get(analysis, "complexity", "Intermediate")
        resources == [
            team |-> ToString(team_size)
                     \o " team members (developers, data scientists, researchers)",
            development_environment |->
                "Modern development machines with good specifications" ]
        by_complexity ==
            IF complexity \in {"Advanced", "Expert"}
            THEN resources @@ [
                hardware |-> "GPU workstations (8GB+ VRAM), 32GB+ RAM, SSD storage",
                cloud_resources |-> "Cloud GPU instances for training (AWS/GCP/Azure)" ]
            ELSE resources @@ [
                hardware |-> "Standard development machines, GPU recommended",
                cloud_resources |-> "Basic cloud services for deployment" ]
        domain == get(analysis, "domain", "")
    IN  IF Contains(upper(domain), "NLP")
        THEN by_complexity @@
             [data_storage |-> "Large text corpora and pre-trained models"]
        ELSE IF Contains(upper(domain), "Vision")
        THEN by_complexity @@
             [data_storage |-> "Image datasets and pre-trained vision models"]
        ELSE by_complexity

Risk(risk, mitigation) == [risk |-> risk, mitigation |-> mitigation]

\* the effect if the loop of lines 536-540 stopped after one challenge
ChallengeRisksFirstOnly(challenges) ==
    IF Len(challenges) = 0 THEN <<>>
    ELSE <<Risk(Head(challenges), "Implement targeted solutions and monitoring")>>

\* lines 535-540: one entry per challenge
RECURSIVE ChallengeRisks(_)
ChallengeRisks(challenges) ==
    IF Len(challenges) = 0 THEN <<>>
    ELSE <<Risk(Head(challenges), "Implement targeted solutions and monitoring")>>
         \o ChallengeRisks(Tail(challenges))

\* lines 500-542
_generate_risks(analysis, complexity) ==
    LET base_risks == <<
            Risk("Technical complexity exceeding team capabilities",
                 "Provide comprehensive training and consider external consultants"),
            Risk("Data quality and availability issues",
                 "Establish data quality checks and backup data sources"),
            Risk("Performance not meeting requirements",
                 "Set realistic benchmarks and implement iterative improvements"),
            Risk("Timeline delays due to unforeseen challenges",
                 "Build buffer time into schedule and prioritize core features") >>
        with_complexity ==
            IF complexity \in {"Advanced", "Expert"}
            THEN base_risks \o <<
                Risk("High computational resource requirements",
                     "Secure adequate cloud resources and optimize algorithms"),
                Risk("Keeping up with rapidly evolving research",
                     "Establish continuous learning and update procedures") >>
            ELSE base_risks
        challenges == get(analysis, "challenges", <<>>)
    IN  with_complexity \o ChallengeRisks(Prefix(challenges, 2))

\* lines 544-577
_generate_success_metrics(analysis) ==
    LET domain == get(analysis, "domain", "")
        technical_metrics == <<
            "Model accuracy > 85%", "System response time < 2 seconds",
            "Code coverage > 80%", "Performance benchmarks achieved" >>
        project_metrics == <<
            "On-time delivery", "Budget adherence", "Quality standards met",
            "Stakeholder satisfaction > 4.0/5.0" >>
    IN  [ technical_metrics |->
              IF Contains(upper(domain), "NLP")
              THEN technical_metrics \o <<
                  "BLEU score > 25 (for translation tasks)",
                  "F1-score > 0.85 (for classification)",
                  "ROUGE score > 0.7 (for summarization)" >>
              ELSE IF Contains(upper(domain), "Vision")
              THEN technical_metrics \o <<
                  "Image classification accuracy > 90%",
                  "Object detection mAP > 0.5",
                  "Real-time processing capability" >>
              ELSE technical_metrics,
          project_metrics |-> project_metrics ]

\* the effect if line 581 took the end month of the first phase
FirstEndMonth(phases) == phases[1].end_month

\* line 581: max(phase['end_month'] for phase in phases)
RECURSIVE MaxEndMonth(_)
MaxEndMonth(phases) ==
    IF Len(phases) = 1 THEN phases[1].end_month
    ELSE max(phases[1].end_month, MaxEndMonth(Tail(phases)))

\* lines 579-598; a date is the number of days after datetime.now()
_generate_timeline(phases) ==
    LET total_duration == MaxEndMonth(phases)
    IN  [ total_duration     |-> ToString(total_duration) \o " months",
          start_date         |-> [days_from_now |-> 0],
          estimated_end_date |-> [days_from_now |-> total_duration * 30],
          milestones |-> [i \in 1..Len(phases) |->
              [ name        |-> phases[i].name \o " Completion",
                month       |-> phases[i].end_month,
                description |-> "Complete " \o phases[i].name
                                \o " with all deliverables" ]] ]

\* line 25: where generate_plan reads the complexity label
plan_complexity(analysis, settings) == get(analysis, "complexity", "Intermediate")

\* a duration default other than the slider's
plan_duration_default_12(settings) == get(settings, "duration", 12)

\* line 26
plan_duration(settings) == get(settings, "duration", 20)

\* lines 12-65; generated_date is datetime.now(), 0 days after now
generate_plan(templates, analysis, settings) ==
    LET domain     == get(analysis, "domain", "Computer Science")
        complexity == plan_complexity(analysis, settings)
        duration   == plan_duration(settings)
        team_size  == get(settings, "team_size", 5)
        phases     == _generate_phases(templates, analysis, duration, complexity)
    IN  [ project_overview |-> [
              title |-> get(analysis, "title", "Research Implementation")
                        \o " - Project Plan",
              domain             |-> domain,
              complexity         |-> complexity,
              estimated_duration |-> ToString(duration) \o " months",
              team_size          |-> team_size,
              generated_date     |-> [days_from_now |-> 0] ],
          phases          |-> phases,
          technical_stack |-> _generate_tech_stack(analysis),
          architecture    |-> _generate_architecture(analysis),
          resources       |-> _generate_resource_requirements(analysis, team_size),
          risks           |-> _generate_risks(analysis, complexity),
          success_metrics |-> _generate_success_metrics(analysis),
          timeline        |-> _generate_timeline(phases) ]

\* the effect if line 302 bound customized_tasks to the template's own list
\* instead of a copy: the appended tasks stay in the template
templates_after_plan_aliased(templates, analysis) ==
    LET key == template_key(get(analysis, "domain", "Machine Learning"))
    IN  [templates EXCEPT ![key] =
            [i \in 1..Len(@) |->
                [@[i] EXCEPT !.core_tasks =
                    _customize_phase_tasks(@, analysis, templates[key][i].name)]]]

\* the effect of one generate_plan call on self.phase_templates: line 302
\* copies the template's task list before appending, and nothing else
\* writes to the templates
templates_after_plan(templates, analysis) == templates

----------------------------------------------------------------------------
(* The requests the model draws *)

\* slider range of "Project Duration (months)"
MinDuration == 6
MaxDuration == 36

\* Python dict d with only the keys in keys present
Restrict(d, keys) == [k \in keys \cap DOMAIN d |-> d[k]]

ComplexityLabels == {"Beginner", "Intermediate", "Advanced", "Expert"}

\* the labels plus one the multiplier table does not know
Complexities == ComplexityLabels \cup {"Unknown"}

Domains == {
    "NLP", "Natural Language Processing", "Vision and NLP",
    "Natural Language and Vision",
    "Computer Vision", "image segmentation",
    "Machine Learning", "Computer Science", "nlp" }

KeyConceptLists == {
    <<>>,
    <<"Transformers", "Transformers", "Attention">>,
    <<"transformers", "Attention", "BERT", "GPT">>,
    <<"Optimization", "Model training">>,
    <<"review Dataset", "pytorch">> }

FrameworkLists == {
    <<>>,
    <<"PyTorch", "Transformers", "TensorFlow", "Keras">>,
    <<"Keras", "keras", "JAX">>,
    <<"Docker">> }

ChallengeLists == {
    <<>>,
    <<"Scalability">>,
    <<"Data Quality", "Model Performance", "Scalability">> }

BaseAnalysis == [
    title        |-> "Attention Is All You Need",
    domain       |-> "Computer Vision",
    complexity   |-> "Advanced",
    key_concepts |-> <<"Attention">>,
    technical_requirements |-> [
        programming_languages |-> <<"Python">>,
        frameworks            |-> <<"PyTorch">> ],
    challenges   |-> <<"Data Quality", "Model Performance", "Scalability">> ]

BaseSettings == [duration |-> 26, team_size |-> 6, complexity |-> "Beginner"]

Request(analysis, settings) == [analysis |-> analysis, settings |-> settings]

\* every duration of the slider with every complexity label, one domain
\* per template family, no concepts and no frameworks
NumericRequests ==
    { Request([BaseAnalysis EXCEPT !.domain = d, !.complexity = c,
                                   !.key_concepts = <<>>,
                                   !.technical_requirements.frameworks = <<>>],
              [BaseSettings EXCEPT !.duration = n, !.complexity = sc]) :
        <<d, c, n, sc>> \in {"NLP", "Computer Vision", "Machine Learning"}
                            \X Complexities
                            \X (MinDuration..MaxDuration)
                            \X {"Beginner", "Expert"} }

\* every domain string with every list of concepts and frameworks
TextRequests ==
    { Request([BaseAnalysis EXCEPT !.domain = d,
                                   !.key_concepts = kc,
                                   !.technical_requirements.frameworks = fw],
              BaseSettings) :
        <<d, kc, fw>> \in Domains \X KeyConceptLists \X FrameworkLists }

\* every list of challenges with every complexity label
RiskRequests ==
    { Request([BaseAnalysis EXCEPT !.complexity = c, !.challenges = ch,
                                   !.key_concepts = <<>>,
                                   !.technical_requirements.frameworks = <<>>],
              BaseSettings) :
        <<c, ch>> \in Complexities \X ChallengeLists }

\* every subset of the analysis and settings fields absent
AbsenceRequests ==
    { Request(
        IF "technical_requirements" \in ak /\ ~fw
        THEN [Restrict(BaseAnalysis, ak) EXCEPT !.technical_requirements =
                 [programming_languages |-> <<"Python">>]]
        ELSE Restrict(BaseAnalysis, ak),
        Restrict(BaseSettings, sk)) :
        <<ak, fw, sk>> \in (SUBSET DOMAIN BaseAnalysis) \X BOOLEAN
                           \X (SUBSET DOMAIN BaseSettings) }

Requests ==
    NumericRequests \cup TextRequests \cup RiskRequests \cup AbsenceRequests

\* project_plan before generate_plan has returned
NoPlan == [not_generated |-> TRUE]

NoHistory == [r \in {} |-> NoPlan]

\* analyze_paper of app.py was not called in this script run
NoRun == [outcome |-> "not_run", calls |-> <<>>]

\* diagrams before generate_diagrams has returned
NoDiagrams == [not_generated |-> TRUE]

\* the planner is driven without a Streamlit session
NoSession ==
    /\ diagrams = NoDiagrams
    /\ environ = EmptyDict
    /\ widgets = EmptyDict
    /\ session_state = EmptyDict
    /\ last_run = NoRun
    /\ results_shown = FALSE

----------------------------------------------------------------------------
(* Spec: one generate_plan call on a fresh ProjectPlanner *)

Init ==
    /\ phase_templates = _load_phase_templates
    /\ \E r \in Requests :
          /\ paper_analysis = r.analysis
          /\ project_settings = r.settings
    /\ project_plan = NoPlan
    /\ history = NoHistory
    /\ NoSession

\* project_plan = self.project_planner.generate_plan(paper_analysis, settings)
GeneratePlan ==
    /\ project_plan = NoPlan
    /\ project_plan' = generate_plan(phase_templates, paper_analysis, project_settings)
    /\ phase_templates' = templates_after_plan(phase_templates, paper_analysis)
    /\ UNCHANGED <<paper_analysis, project_settings, history, app_vars>>

\* the label one step up the slider order
NextLabel ==
    "Beginner" :> "Intermediate" @@ "Intermediate" :> "Advanced"
    @@ "Advanced" :> "Expert"

\* a further generate_plan call whose analysis differs from the last one
\* only in carrying the next higher complexity label
RaiseComplexity ==
    /\ project_plan # NoPlan
    /\ "complexity" \in DOMAIN paper_analysis
    /\ paper_analysis.complexity \in DOMAIN NextLabel
    /\ paper_analysis' = [paper_analysis EXCEPT
                             !.complexity = NextLabel[paper_analysis.complexity]]
    /\ project_plan' = generate_plan(phase_templates, paper_analysis', project_settings)
    /\ phase_templates' = templates_after_plan(phase_templates, paper_analysis')
    /\ UNCHANGED <<project_settings, history, app_vars>>

Next == GeneratePlan \/ RaiseComplexity

Spec == Init /\ [][Next]_vars

TypeOK ==
    project_plan # NoPlan =>
        /\ Len(project_plan.phases) = 5
        /\ DOMAIN project_plan = {"project_overview", "phases", "technical_stack",
               "architecture", "resources", "risks", "success_metrics", "timeline"}

----------------------------------------------------------------------------
(* SpecCalls: a sequence of generate_plan calls on one ProjectPlanner *)

\* how often the model repeats one request
MaxCallsPerRequest == 2

CallRequests == {
    Request([BaseAnalysis EXCEPT !.domain = "NLP",
                                 !.key_concepts = <<"Transformers">>],
            BaseSettings),
    Request([BaseAnalysis EXCEPT !.domain = "NLP",
                                 !.technical_requirements.frameworks = <<"Keras">>],
            BaseSettings),
    Request([BaseAnalysis EXCEPT !.domain = "Natural Language Processing",
                                 !.key_concepts = <<>>,
                                 !.technical_requirements.frameworks = <<>>],
            [duration |-> 12]),
    Request(BaseAnalysis, BaseSettings) }

InitCalls ==
    /\ phase_templates = _load_phase_templates
    /\ paper_analysis = EmptyDict
    /\ project_settings = EmptyDict
    /\ project_plan = NoPlan
    /\ history = NoHistory
    /\ NoSession

CallsOf(r) == IF r \in DOMAIN history THEN history[r].calls ELSE 0

\* plan = planner.generate_plan(r.analysis, r.settings) on the same planner
Call(r) ==
    /\ CallsOf(r) < MaxCallsPerRequest
    /\ paper_analysis' = r.analysis
    /\ project_settings' = r.settings
    /\ project_plan' = generate_plan(phase_templates, r.analysis, r.settings)
    /\ phase_templates' = templates_after_plan(phase_templates, r.analysis)
    /\ history' = IF r \in DOMAIN history
                  THEN [history EXCEPT ![r].calls = @ + 1]
                  ELSE history @@ (r :> [plan |-> project_plan', calls |-> 1])
    /\ UNCHANGED app_vars

NextCalls == \E r \in CallRequests : Call(r)

SpecCalls == InitCalls /\ [][NextCalls]_vars

----------------------------------------------------------------------------
(* Python str operations used by PDFProcessor, AIAnalyzer and
   VisualizationGenerator *)

\* the characters str.strip() removes and the regex class \s matches
Whitespace == {" ", "\t", "\n", "\r"}

\* s.strip()
strip(s) ==
    IF \A i \in 1..Len(s) : CharAt(s, i) \in Whitespace THEN ""
    ELSE LET first == CHOOSE i \in 1..Len(s) :
                         /\ CharAt(s, i) \notin Whitespace
                         /\ \A j \in 1..(i - 1) : CharAt(s, j) \in Whitespace
             last  == CHOOSE i \in 1..Len(s) :
                         /\ CharAt(s, i) \notin Whitespace
                         /\ \A j \in (i + 1)..Len(s) : CharAt(s, j) \in Whitespace
         IN  SubSeq(s, first, last)

\* s.split(sep) for a one-character sep
RECURSIVE split(_, _)
split(s, sep) ==
    IF \E i \in 1..Len(s) : CharAt(s, i) = sep
    THEN LET i == CHOOSE i \in 1..Len(s) :
                     /\ CharAt(s, i) = sep
                     /\ \A j \in 1..(i - 1) : CharAt(s, j) # sep
         IN  <<SubSeq(s, 1, i - 1)>> \o split(SubSeq(s, i + 1, Len(s)), sep)
    ELSE <<s>>

\* the effect if the names were written as they are
replace_nothing(s, old, new) == s

\* s.replace(old, new) for a one-character old
RECURSIVE replace(_, _, _)
replace(s, old, new) ==
    IF Len(s) = 0 THEN ""
    ELSE IF Len(s) = 1 THEN (IF s = old THEN new ELSE s)
    ELSE replace(SubSeq(s, 1, Len(s) \div 2), old, new)
         \o replace(SubSeq(s, Len(s) \div 2 + 1, Len(s)), old, new)

\* re.sub(r'\s+', ' ', s) on the characters lo..hi of s: the first character of
\* a run of whitespace becomes one space, the others are dropped
RECURSIVE sub_whitespace(_, _, _)
sub_whitespace(s, lo, hi) ==
    IF lo > hi THEN ""
    ELSE IF lo = hi
    THEN IF CharAt(s, lo) \notin Whitespace THEN CharAt(s, lo)
         ELSE IF lo > 1 /\ CharAt(s, lo - 1) \in Whitespace THEN ""
         ELSE " "
    ELSE sub_whitespace(s, lo, (lo + hi) \div 2)
         \o sub_whitespace(s, (lo + hi) \div 2 + 1, hi)

IsCased(c) == c \in DOMAIN UpperMap \/ c \in DOMAIN LowerMap

\* s.title(): a letter that follows a letter is lowered, any other letter
\* is raised
RECURSIVE title_from(_, _)
title_from(s, after_cased) ==
    IF Len(s) = 0 THEN ""
    ELSE (IF after_cased THEN LowerChar(CharAt(s, 1)) ELSE UpperChar(CharAt(s, 1)))
         \o title_from(SubSeq(s, 2, Len(s)), IsCased(CharAt(s, 1)))

title(s) == title_from(s, FALSE)

\* the concatenation of a list of lists
RECURSIVE flatten(_)
flatten(lists) ==
    IF Len(lists) = 0 THEN <<>> ELSE Head(lists) \o flatten(Tail(lists))

----------------------------------------------------------------------------
(* PDFProcessor.  An uploaded file is the list of page texts each of the two
   libraries reads from it ("" for a page without text); a library that fails
   part way leaves the text of the pages read before, which is the text of
   a file with those pages only. *)

\* the loop of _extract_with_pdfplumber and _extract_with_pypdf2
RECURSIVE _extract_pages(_)
_extract_pages(pages) ==
    IF Len(pages) = 0 THEN ""
    ELSE (IF Head(pages) # "" THEN Head(pages) \o "\n" ELSE "")
         \o _extract_pages(Tail(pages))

_extract_with_pdfplumber(file) == _extract_pages(file.pdfplumber)

_extract_with_pypdf2(file) == _extract_pages(file.pypdf2)

\* the effect if line 86 did not apply re.sub
_clean_text_without_sub(text) ==
    IF text = "" THEN ""
    ELSE LET lines         == split(text, "\n")
             stripped      == [i \in 1..Len(lines) |-> strip(lines[i])]
             cleaned_lines == SelectSeq(stripped, LAMBDA line : line # "")
         IN  strip(join(" ", cleaned_lines))

\* lines 67-88
_clean_text(text) ==
    IF text = "" THEN ""
    ELSE LET lines         == split(text, "\n")
             stripped      == [i \in 1..Len(lines) |-> strip(lines[i])]
             cleaned_lines == SelectSeq(stripped, LAMBDA line : line # "")
             cleaned_text  == join(" ", cleaned_lines)
         IN  strip(sub_whitespace(cleaned_text, 1, Len(cleaned_text)))

extract_text(file) ==
    LET text == _extract_with_pdfplumber(file)
    IN  IF Len(strip(text)) < 100
        THEN _clean_text(_extract_with_pypdf2(file))
        ELSE _clean_text(text)

----------------------------------------------------------------------------
(* AIAnalyzer.  The answer of the Together.AI service is an input: the call
   raises, or returns a message without content, or returns a reply text. *)

_create_fallback_analysis == [
    title         |-> "Research Paper",
    authors       |-> "Unknown",
    abstract      |-> "Analysis unavailable - please check your API configuration",
    domain        |-> "Computer Science",
    research_type |-> "Research Paper",
    year          |-> "2024",
    complexity    |-> "Intermediate",
    key_concepts  |-> <<"Research", "Implementation">>,
    methodologies |-> <<"Analysis">>,
    technical_requirements |-> [
        programming_languages |-> <<"Python">>,
        frameworks            |-> <<"Standard libraries">>,
        hardware              |-> <<"Standard hardware">>,
        datasets              |-> <<"TBD">> ],
    applications  |-> <<"Research">>,
    challenges    |-> <<"Implementation">>,
    future_work   |-> <<"Development">> ]

_create_structured_analysis_from_text(text) == [
    title         |-> "Research Paper Analysis",
    authors       |-> "Not specified",
    abstract      |-> IF Len(text) > 500 THEN SubSeq(text, 1, 500) \o "..." ELSE text,
    domain        |-> "Computer Science",
    research_type |-> "Research Paper",
    year          |-> "2024",
    complexity    |-> "Intermediate",
    key_concepts  |-> <<"Machine Learning", "Data Analysis", "Implementation">>,
    methodologies |-> <<"Experimental", "Comparative Analysis">>,
    technical_requirements |-> [
        programming_languages |-> <<"Python">>,
        frameworks            |-> <<"TensorFlow", "PyTorch", "Scikit-learn">>,
        hardware              |-> <<"GPU recommended", "8GB+ RAM">>,
        datasets              |-> <<"Custom dataset required">> ],
    applications  |-> <<"Research Implementation", "Practical Application">>,
    challenges    |-> <<"Data Quality", "Model Performance", "Scalability">>,
    future_work   |-> <<"Optimization", "Extension", "Real-world Deployment">> ]

\* re.search(r'\{.*\}', text, re.DOTALL): the leftmost "{" that has a "}"
\* after it, up to the last "}" of the text
re_search_braces(text) ==
    LET opens  == {i \in 1..Len(text) : CharAt(text, i) = "{"}
        closes == {i \in 1..Len(text) : CharAt(text, i) = "}"}
    IN  IF \E i \in opens : \E j \in closes : i < j
        THEN LET first == CHOOSE i \in opens : \A k \in opens : i <= k
                 last  == CHOOSE j \in closes : \A k \in closes : k <= j
             IN  [matched |-> TRUE, group |-> SubSeq(text, first, last)]
        ELSE [matched |-> FALSE]

\* the JSON documents among the strings the model hands to json.loads, each
\* with the dict it decodes to; every other string is not a JSON document
Document1 ==
    "{\"title\": \"BERT\", \"domain\": \"NLP\", \"complexity\": \"Advanced\", \"key_concepts\": [\"Transformers\"]}"

Document2 == "{\"domain\": \"Computer Vision\"}"

\* Python's None, which JSON null decodes to: a value that no string of a
\* reply or of the planner equals
None == "<None>"

Document3 == "{\"domain\": null}"

JsonDocuments ==
    Document1 :> [title |-> "BERT", domain |-> "NLP", complexity |-> "Advanced",
                  key_concepts |-> <<"Transformers">>]
    @@ Document2 :> [domain |-> "Computer Vision"]
    @@ Document3 :> [domain |-> None]

\* the opening of a JSON object whose arrays are nested deeper than the
\* recursion limit of the interpreter (1000 frames)
DeepOpening == "{\"a\": " \o repeat("[", 1100)

\* json.loads(json_str): the decoded dict, or json.JSONDecodeError, or the
\* RecursionError the scanner raises once it has descended below the limit,
\* whatever follows
json_loads(json_str) ==
    IF json_str \in DOMAIN JsonDocuments
    THEN [decoded |-> TRUE, value |-> JsonDocuments[json_str]]
    ELSE IF StartsWith(json_str, DeepOpening)
    THEN [decoded |-> FALSE, error |-> "RecursionError"]
    ELSE [decoded |-> FALSE, error |-> "JSONDecodeError"]

Raised(error)  == [raised |-> TRUE, error |-> error]
Returned(value) == [raised |-> FALSE, value |-> value]

\* lines 124-126 catch json.JSONDecodeError only: any other exception of
\* json.loads leaves the function
_parse_analysis_response(response_text) ==
    LET json_match == re_search_braces(response_text)
    IN  IF json_match.matched
        THEN LET analysis == json_loads(json_match.group)
             IN  IF analysis.decoded THEN Returned(analysis.value)
                 ELSE IF analysis.error = "JSONDecodeError"
                 THEN Returned(_create_structured_analysis_from_text(response_text))
                 ELSE Raised(analysis.error)
        ELSE Returned(_create_structured_analysis_from_text(response_text))

\* the effect if the handler of lines 63-65 let the exception go on
on_api_exception_reraise == Raised("Error in AI analysis")

\* lines 63-65: except Exception: return self._create_fallback_analysis()
on_api_exception == Returned(_create_fallback_analysis)

\* client: self.client is set; api: the answer of the service
analyze_paper(client, api) ==
    IF ~client
    THEN Raised("Together.AI client not initialized. Please provide API key.")
    ELSE IF api.kind = "reply"
    THEN LET analysis == _parse_analysis_response(api.content)
         IN  IF analysis.raised THEN on_api_exception ELSE analysis
    ELSE on_api_exception

\* AIAnalyzer._initialize_client: self.client is set iff the key is in the
\* environment and is not empty
_initialize_client(env) ==
    "TOGETHER_API_KEY" \in DOMAIN env /\ env["TOGETHER_API_KEY"] # ""

----------------------------------------------------------------------------
(* VisualizationGenerator.  A Mermaid text is modelled by the statements it
   is made of: bars, nodes and edges, in the order they are written. *)

Edge(from, to, label) == [from |-> from, to |-> to, label |-> label]

Node(id, label) == [id |-> id, label |-> label]

\* i and j are the indices of enumerate() plus one
_generate_gantt_chart(plan) ==
    LET phases == get(plan, "phases", <<>>)
        section(i) ==
            LET phase       == phases[i]
                start_month == get(phase, "start_month", 1)
                end_month   == get(phase, "end_month", start_month + 1)
                duration    == end_month - start_month + 1
                phase_name  == replace(get(phase, "name", "Phase " \o ToString(i)),
                                       " ", "_")
                tasks       == get(phase, "tasks", <<>>)
                task_bar(j) ==
                    LET task_duration == max(1, duration \div Len(tasks))
                    IN  [name     |-> Prefix(replace(tasks[j], " ", "_"), 20),
                         id       |-> "a" \o ToString(i) \o "_" \o ToString(j),
                         start    |-> start_month + (j - 1) * task_duration,
                         duration |-> task_duration]
            IN  [section |-> "Phase " \o ToString(i),
                 bars    |-> <<[name     |-> phase_name,
                                id       |-> "a" \o ToString(i),
                                start    |-> start_month,
                                duration |-> duration]>>
                             \o [j \in 1..Len(Prefix(tasks, 3)) |-> task_bar(j)]]
    IN  [i \in 1..Len(phases) |-> section(i)]

_generate_workflow_diagram(plan) ==
    LET phases == get(plan, "phases", <<>>)
        phase_id(i)    == "Phase" \o ToString(i)
        decision_id(i) == "Decision" \o ToString(i)
        is_last(i)     == ~(i - 1 < Len(phases) - 1)
        is_middle(i)   == i - 1 = Len(phases) \div 2
        nodes(i) ==
            <<Node(phase_id(i), get(phases[i], "name", "Phase " \o ToString(i)))>>
            \o (IF is_last(i) THEN <<Node("End", "Project Complete")>> ELSE <<>>)
            \o (IF is_middle(i) THEN <<Node(decision_id(i), "Quality Check")>>
                ELSE <<>>)
        edges(i) ==
            <<Edge(phase_id(i),
                   IF is_last(i) THEN "End" ELSE phase_id(i + 1), "")>>
            \o (IF is_middle(i)
                THEN <<Edge(phase_id(i), decision_id(i), ""),
                       Edge(decision_id(i), phase_id(i + 1), "Pass"),
                       Edge(decision_id(i), phase_id(i), "Fail")>>
                ELSE <<>>)
    IN  [nodes   |-> <<Node("Start", "Project Start")>>
                     \o flatten([i \in 1..Len(phases) |-> nodes(i)]),
         edges   |-> <<Edge("Start", "Phase1", "")>>
                     \o flatten([i \in 1..Len(phases) |-> edges(i)]),
         classes |-> [phaseBox |-> [i \in 1..Len(phases) |-> phase_id(i)],
                      endpoint |-> <<"Start", "End">>]]

\* the keys of the dict _generate_architecture returns, in insertion order
architecture_keys ==
    <<"data_layer", "model_layer", "application_layer", "interface_layer">>

\* dict.items() of a dict whose keys were inserted in the order of keys
items(d, keys) ==
    LET present == SelectSeq(keys, LAMBDA k : k \in DOMAIN d)
    IN  [i \in 1..Len(present) |-> <<present[i], d[present[i]]>>]

_generate_architecture_diagram(plan) ==
    LET architecture == items(get(plan, "architecture", EmptyDict),
                              architecture_keys)
    IN  [nodes |-> <<Node("UI", "User Interface Layer"),
                     Node("API", "Application Layer"),
                     Node("MODEL", "Model Layer"),
                     Node("DATA", "Data Layer"),
                     Node("INFRA", "Infrastructure Layer")>>
                   \o [i \in 1..Len(architecture) |->
                          Node(replace(upper(architecture[i][1]), " ", "_"),
                               title(architecture[i][1]))],
         edges |-> <<Edge("UI", "API", ""), Edge("API", "MODEL", ""),
                     Edge("MODEL", "DATA", ""), Edge("API", "INFRA", "")>>,
         classes |-> [layer |-> <<"UI", "API", "MODEL", "DATA", "INFRA">>]]

_generate_phase_flowchart(plan) ==
    LET phases == get(plan, "phases", <<>>)
        P(i, part) == "P" \o ToString(i) \o "_" \o part
        subgraph(i) ==
            [title |-> get(phases[i], "name", "Phase " \o ToString(i)),
             nodes |-> <<Node(P(i, "Start"), "Begin"), Node(P(i, "Plan"), "Planning"),
                         Node(P(i, "Exec"), "Execution"),
                         Node(P(i, "Review"), "Review"),
                         Node(P(i, "End"), "Complete")>>,
             edges |-> <<Edge(P(i, "Start"), P(i, "Plan"), ""),
                         Edge(P(i, "Plan"), P(i, "Exec"), ""),
                         Edge(P(i, "Exec"), P(i, "Review"), ""),
                         Edge(P(i, "Review"), P(i, "End"), "")>>]
    IN  [nodes     |-> <<Node("Start", "Start"), Node("Finish", "Project Complete")>>,
         subgraphs |-> [i \in 1..Len(phases) |-> subgraph(i)],
         edges     |-> <<Edge("Start", "P1_Start", "")>>
                       \o [i \in 1..(Len(phases) - 1) |->
                              Edge(P(i, "End"), P(i + 1, "Start"), "")]
                       \o <<Edge(P(Len(phases), "End"), "Finish", "")>>]

generate_diagrams(plan) ==
    "gantt_chart.md" :> _generate_gantt_chart(plan)
    @@ "workflow_diagram.md" :> _generate_workflow_diagram(plan)
    @@ "architecture_diagram.md" :> _generate_architecture_diagram(plan)
    @@ "phase_flowchart.md" :> _generate_phase_flowchart(plan)

----------------------------------------------------------------------------
(* ResearchAnalyzerApp: one Streamlit session.  Every user action runs the
   script once: main() builds the four components, run() renders the sidebar
   from the widgets, and the upload section calls analyze_paper when the
   button was pressed. *)

\* the widgets of a new session: lines 64-68, 82-86, 93-113
DefaultWidgets == [
    api_key        |-> "",
    selected_model |-> "meta-llama/Llama-3-8b-chat-hf",
    duration       |-> 20,
    team_size      |-> 5,
    complexity     |-> "Intermediate" ]

\* the values the user gives the widgets
WidgetChoices ==
    { [DefaultWidgets EXCEPT !.api_key = k] : k \in {"", "tgp_v1_key"} }
    \cup { [DefaultWidgets EXCEPT !.api_key = k, !.duration = MinDuration,
                                  !.team_size = 1, !.complexity = "Expert"] :
             k \in {"", "tgp_v1_key"} }

\* a page of 151 characters
LongPage ==
    "We propose a new simple network architecture,   the Transformer,\n"
    \o "  based solely on attention mechanisms,\tdispensing with recurrence "
    \o "and convolutions  \n"

\* a page of 27 characters
ShortPage == "Attention Is  All You Need\n"

UploadedFiles == {
    [pdfplumber |-> <<"", "">>,      pypdf2 |-> <<>>],
    [pdfplumber |-> <<" \n\t">>,     pypdf2 |-> <<"\t ">>],
    [pdfplumber |-> <<ShortPage>>,   pypdf2 |-> <<>>],
    [pdfplumber |-> <<ShortPage>>,   pypdf2 |-> <<ShortPage, LongPage>>],
    [pdfplumber |-> <<LongPage, "">>, pypdf2 |-> <<>>] }

ApiReply(content) == [kind |-> "reply", content |-> content]

\* the answers of the service
ApiOutcomes == {
    [kind |-> "raises"],
    [kind |-> "no_content"],
    ApiReply("Here is the analysis:\n" \o Document1 \o "\nI hope this helps."),
    ApiReply(Document2 \o " or, read differently, " \o Document1),
    ApiReply(Document3),
    ApiReply("The paper studies attention; a summary {as JSON is not available.") }

\* lines 70-71
environ_after_sidebar(env, w) ==
    IF w.api_key # ""
    THEN [k \in DOMAIN env \cup {"TOGETHER_API_KEY"} |-> w.api_key]
    ELSE env

\* lines 88, 115-119 and 48-49
session_after_sidebar(state, w) ==
    LET written == [selected_model   |-> w.selected_model,
                    project_settings |-> [duration   |-> w.duration,
                                          team_size  |-> w.team_size,
                                          complexity |-> w.complexity]]
                   @@ state
    IN  IF "analysis_complete" \notin DOMAIN written
        THEN written @@ [analysis_complete |-> FALSE]
        ELSE written

\* the effect if line 169 never took the early return
extraction_failed_never(extracted_text) == FALSE

\* line 169: if not extracted_text.strip()
extraction_failed(extracted_text) == strip(extracted_text) = ""

\* the effect if line 201 did not store the diagrams
session_after_analysis_without_diagrams(state, analysis, plan, generated, filename) ==
    [paper_analysis    |-> analysis,
     project_plan      |-> plan,
     filename          |-> filename,
     analysis_complete |-> TRUE] @@ state

\* lines 199-203
session_after_analysis(state, analysis, plan, generated, filename) ==
    [paper_analysis    |-> analysis,
     project_plan      |-> plan,
     diagrams          |-> generated,
     filename          |-> filename,
     analysis_complete |-> TRUE] @@ state

\* project_planner.py line 248: domain.upper() raises AttributeError when
\* the analysis holds None as its domain; the handler of lines 211-214 of
\* app.py ends the run
generate_plan_raises(analysis) == get(analysis, "domain", "") = None

\* a script run in which the button was not pressed: the user has changed
\* the widgets to w
ScriptRun(w) ==
    /\ widgets' = w
    /\ environ' = environ_after_sidebar(environ, w)
    /\ session_state' = session_after_sidebar(session_state, w)
    /\ last_run' = NoRun
    /\ results_shown' = session_state'.analysis_complete
    /\ phase_templates' = _load_phase_templates
    /\ paper_analysis' = EmptyDict
    /\ project_settings' = EmptyDict
    /\ project_plan' = NoPlan
    /\ diagrams' = NoDiagrams
    /\ UNCHANGED history

\* the script run of a press on the button with file uploaded, in which the
\* service answers with api: lines 155-214, and line 55 of the run that ends it
AnalyzePaper(file, api) ==
    LET client   == _initialize_client(environ)
        state    == session_after_sidebar(session_state, widgets)
        settings == state.project_settings
        run(outcome, calls, extracted_text) ==
            [outcome |-> outcome, calls |-> calls, client |-> client,
             api |-> api, extracted_text |-> extracted_text]
        stopped(outcome, calls, extracted_text) ==
            /\ session_state' = state
            /\ last_run' = run(outcome, calls, extracted_text)
            /\ phase_templates' = _load_phase_templates
            /\ paper_analysis' = EmptyDict
            /\ project_settings' = EmptyDict
            /\ project_plan' = NoPlan
            /\ diagrams' = NoDiagrams
        stored(extracted_text, analysis, plan, generated) ==
            /\ session_state' = session_after_analysis(state, analysis, plan,
                                     generated, "paper.pdf")
            /\ diagrams' = generated
            /\ last_run' = run("complete", <<"extract_text", "analyze_paper",
                                   "generate_plan", "generate_diagrams">>,
                               extracted_text)
            /\ phase_templates' =
                   templates_after_plan(_load_phase_templates, analysis)
            /\ paper_analysis' = analysis
            /\ project_settings' = settings
            /\ project_plan' = plan
    IN  /\ environ' = environ_after_sidebar(environ, widgets)
        /\ \E extracted_text \in {extract_text(file)} :
              IF extraction_failed(extracted_text)
              THEN stopped("extraction_failed", <<"extract_text">>, extracted_text)
              ELSE \E analysis \in {analyze_paper(client, api)} :
                  IF analysis.raised
                  THEN stopped("error", <<"extract_text", "analyze_paper">>,
                               extracted_text)
                  ELSE IF generate_plan_raises(analysis.value)
                  THEN stopped("error", <<"extract_text", "analyze_paper",
                                          "generate_plan">>, extracted_text)
                  ELSE \E plan \in {generate_plan(_load_phase_templates,
                                                  analysis.value, settings)} :
                       \E generated \in {generate_diagrams(plan)} :
                           stored(extracted_text, analysis.value, plan, generated)
        /\ results_shown' = session_state'.analysis_complete
        /\ UNCHANGED <<widgets, history>>

\* the session after the first script run, with the key in the environment
\* of the server or not
InitApp ==
    /\ widgets = DefaultWidgets
    /\ environ \in {EmptyDict, [TOGETHER_API_KEY |-> "tgp_v1_key"]}
    /\ session_state = session_after_sidebar(EmptyDict, DefaultWidgets)
    /\ last_run = NoRun
    /\ results_shown = FALSE
    /\ diagrams = NoDiagrams
    /\ phase_templates = _load_phase_templates
    /\ paper_analysis = EmptyDict
    /\ project_settings = EmptyDict
    /\ project_plan = NoPlan
    /\ history = NoHistory

NextApp ==
    \/ \E w \in WidgetChoices : ScriptRun(w)
    \/ \E file \in UploadedFiles, api \in ApiOutcomes : AnalyzePaper(file, api)

SpecApp == InitApp /\ [][NextApp]_vars

----------------------------------------------------------------------------
(* SpecAnalyzer: a sequence of analyze_paper calls on one AIAnalyzer *)

\* a reply of 540 characters
LongReply == repeat("The model attends to all positions. ", 15)

ReplyCores == {
    Document1,
    Document2,
    "{\"domain\": NLP}",
    "The paper studies attention.",
    "Analysis unavailable - please check your API configuration",
    LongReply,
    DeepOpening \o "}" }

ReplyPrefixes == {"", "Here is the analysis:\n", "{ ", "} "}

ReplySuffixes == {"", "\nI hope this helps.", " }", " {", "\n" \o Document2}

ReplyTexts ==
    { pre \o core \o suf :
        <<pre, core, suf>> \in ReplyPrefixes \X ReplyCores \X ReplySuffixes }

AnalyzerOutcomes ==
    {[kind |-> "raises"], [kind |-> "no_content"]}
    \cup {ApiReply(content) : content \in ReplyTexts}

\* AIAnalyzer.__init__ with the key in the environment or not
InitAnalyzer ==
    /\ environ \in {EmptyDict, [TOGETHER_API_KEY |-> "tgp_v1_key"]}
    /\ widgets = EmptyDict
    /\ session_state = EmptyDict
    /\ last_run = NoRun
    /\ results_shown = FALSE
    /\ diagrams = NoDiagrams
    /\ phase_templates = _load_phase_templates
    /\ paper_analysis = EmptyDict
    /\ project_settings = EmptyDict
    /\ project_plan = NoPlan
    /\ history = NoHistory

\* paper_analysis = analyzer.analyze_paper(text), the service answering api
AnalyzeText(api) ==
    LET client == _initialize_client(environ)
    IN  \E result \in {analyze_paper(client, api)} :
            /\ last_run' = [outcome |-> IF result.raised THEN "raised"
                                        ELSE "returned",
                            calls   |-> <<"analyze_paper">>,
                            client  |-> client,
                            api     |-> api]
            /\ paper_analysis' = IF result.raised THEN EmptyDict
                                 ELSE result.value
            /\ UNCHANGED <<environ, widgets, session_state, results_shown,
                           diagrams, phase_templates, project_settings,
                           project_plan, history>>

NextAnalyzer == \E api \in AnalyzerOutcomes : AnalyzeText(api)

SpecAnalyzer == InitAnalyzer /\ [][NextAnalyzer]_vars

----------------------------------------------------------------------------
(* SpecDiagrams: generate_plan followed by generate_diagrams *)

\* every duration of the slider for each template family, and the NLP
\* requests with every list of concepts and frameworks
DiagramRequests ==
    { r \in NumericRequests :
        /\ r.settings.complexity = "Beginner"
        /\ r.analysis.complexity \in {"Beginner", "Expert"} }
    \cup { r \in TextRequests : r.analysis.domain = "NLP" }

InitDiagrams ==
    /\ phase_templates = _load_phase_templates
    /\ \E r \in DiagramRequests :
          /\ paper_analysis = r.analysis
          /\ project_settings = r.settings
    /\ project_plan = NoPlan
    /\ history = NoHistory
    /\ NoSession

\* diagrams = self.viz_generator.generate_diagrams(project_plan)
GenerateDiagrams ==
    /\ project_plan # NoPlan
    /\ diagrams = NoDiagrams
    /\ diagrams' = generate_diagrams(project_plan)
    /\ UNCHANGED <<phase_templates, paper_analysis, project_settings,
                   project_plan, history, environ, widgets, session_state,
                   last_run, results_shown>>

NextDiagrams == GeneratePlan \/ GenerateDiagrams

SpecDiagrams == InitDiagrams /\ [][NextDiagrams]_vars

----------------------------------------------------------------------------
(* SpecWorkflow: generate_diagrams on plans of any number of phases.  The
   generator reads the plan with .get() and takes the phases as they come, so
   it is applied here to phase lists of 0..MaxPhases entries, with and
   without the fields it reads. *)

MaxPhases == 4

PhaseShapes == {
    [ name        |-> "Literature Review",
      start_month |-> 1,
      end_month   |-> 2,
      tasks       |-> <<"Read papers", "Write summary">> ],
    [ name |-> "Model Development" ],
    EmptyDict }

PhaseLists == UNION { [1..n -> PhaseShapes] : n \in 0..MaxPhases }

InitWorkflow ==
    /\ phase_templates = _load_phase_templates
    /\ paper_analysis = EmptyDict
    /\ project_settings = EmptyDict
    /\ \E phases \in PhaseLists : project_plan = [phases |-> phases]
    /\ history = NoHistory
    /\ NoSession

SpecWorkflow == InitWorkflow /\ [][GenerateDiagrams]_vars

----------------------------------------------------------------------------
(* SpecExtract: extract_text on files whose two readers give any of the
   page texts.  A reader that fails part-way has given the pages before the
   failure (lines 37-46 and 52-63 keep the text read so far), so a failing
   reader is a shorter list of pages. *)

\* pages of 100 and of 99 characters without the newline the loop adds
Page100 == repeat("abcde fghi", 10)
Page99  == SubSeq(Page100, 1, 99)

PlumberPages == {"", " \n\t", ShortPage, LongPage, Page100, Page99}

PlumberLists ==
    {<<>>} \cup {<<page>> : page \in PlumberPages}
    \cup {<<first, second>> : <<first, second>> \in PlumberPages \X PlumberPages}

Pypdf2Lists ==
    {<<>>, <<"\t ">>, <<ShortPage>>, <<LongPage, " x  y\r\n">>,
     <<"  Attention\n\n is \t all ", ShortPage>>}

ExtractFiles ==
    { [pdfplumber |-> primary, pypdf2 |-> secondary] :
        <<primary, secondary>> \in PlumberLists \X Pypdf2Lists }

InitExtract ==
    /\ phase_templates = _load_phase_templates
    /\ paper_analysis = EmptyDict
    /\ project_settings = EmptyDict
    /\ project_plan = NoPlan
    /\ history = NoHistory
    /\ NoSession

\* extracted_text = self.pdf_processor.extract_text(file_path)
ExtractText(file) ==
    /\ last_run' = [outcome        |-> "extracted",
                    calls          |-> <<"extract_text">>,
                    file           |-> file,
                    extracted_text |-> extract_text(file)]
    /\ UNCHANGED <<phase_templates, paper_analysis, project_settings,
                   project_plan, history, environ, widgets, session_state,
                   results_shown, diagrams>>

NextExtract == \E file \in ExtractFiles : ExtractText(file)

SpecExtract == InitExtract /\ [][NextExtract]_vars

----------------------------------------------------------------------------
(* Properties of the plan *)

Planned == project_plan # NoPlan

\* length of a phase in months, both ends included
Months(phase) == phase.end_month - phase.start_month + 1

\* end_month of the last phase
Span(plan) == plan.phases[Len(plan.phases)].end_month

\* the template entries the plan was built from
UsedTemplates ==
    phase_templates[template_key(get(paper_analysis, "domain", "Machine Learning"))]

\* C1: the phases of a plan are contiguous and ordered: the first starts in
\* month 1, each later one starts the month after the previous one ends, and
\* no phase ends before it starts.
C1_PhasesContiguous ==
    Planned =>
        LET phases == project_plan.phases
        IN  /\ phases[1].start_month = 1
            /\ \A i \in 1..(Len(phases) - 1) :
                   phases[i + 1].start_month = phases[i].end_month + 1
            /\ \A i \in 1..Len(phases) :
                   phases[i].end_month >= phases[i].start_month

\* a plan for the longest duration at the highest complexity, whose last
\* phase ends after month 36
C1_Witness ==
    /\ Planned
    /\ get(project_settings, "duration", 20) = MaxDuration
    /\ get(paper_analysis, "complexity", "Intermediate") = "Expert"
    /\ project_plan.phases[5].start_month = project_plan.phases[4].end_month + 1
    /\ Span(project_plan) > MaxDuration

\* the multiplier table as the specification states it, in tenths
StatedTenths(label) ==
    CASE label = "Beginner"     -> 8
      [] label = "Intermediate" -> 10
      [] label = "Advanced"     -> 13
      [] label = "Expert"       -> 16
      [] OTHER                  -> 10

\* r is num/den rounded to the nearest integer, a tie going to the even one
IsNearestTiesEven(r, num, den) ==
    LET twice == IF 2 * r * den >= 2 * num THEN 2 * r * den - 2 * num
                 ELSE 2 * num - 2 * r * den
    IN  \/ twice < den
        \/ twice = den /\ r % 2 = 0

\* C3: every phase lasts max(1, round(base_duration * (duration / total) *
\* multiplier)) months, round being round-half-to-even and the multiplier
\* 0.8 / 1.0 / 1.3 / 1.6 / 1.0 (other labels); Computer Vision, Advanced,
\* 26 months gives 5, 10, 7, 7 and 5 months.
C3_ScaledDurations ==
    Planned =>
        LET phases   == project_plan.phases
            duration == get(project_settings, "duration", 20)
            tenths   == StatedTenths(get(paper_analysis, "complexity", "Intermediate"))
            total    == SumBase(UsedTemplates)
        IN  /\ \A i \in 1..Len(phases) :
                 LET num == UsedTemplates[i].base_duration * duration * tenths
                     den == total * 10
                     d   == Months(phases[i])
                 IN  /\ \E r \in 0..d :
                            /\ IsNearestTiesEven(r, num, den)
                            /\ d = IF r >= 1 THEN r ELSE 1
                     /\ phases[i].duration = ToString(d) \o " months"
            /\ ( /\ get(paper_analysis, "domain", "") = "Computer Vision"
                 /\ get(paper_analysis, "complexity", "") = "Advanced"
                 /\ duration = 26 )
               => [i \in 1..5 |-> Months(phases[i])] = <<5, 10, 7, 7, 5>>

\* a tie: 6 * (15 / 20) * 1.0 = 4.5 months becomes 4
C3_Witness ==
    /\ Planned
    /\ get(project_settings, "duration", 20) = 15
    /\ get(paper_analysis, "complexity", "") = "Intermediate"
    /\ Months(project_plan.phases[2]) = 4

\* the family the specification states for a domain string
StatedFamily(domain) ==
    LET d == lower(domain)
    IN  IF Contains(d, "nlp") \/ Contains(d, "natural language") THEN "NLP"
        ELSE IF Contains(d, "vision") \/ Contains(d, "image") THEN "Computer Vision"
        ELSE "Machine Learning"

\* C4: the template family is NLP when the domain contains "NLP" or "NATURAL
\* LANGUAGE" in any letter case, else Computer Vision when it contains
\* "VISION" or "IMAGE", else Machine Learning (also when the domain is
\* absent); the plan's phase names are the family's five names in order.
C4_FamilyByKeyword ==
    Planned =>
        LET family == IF "domain" \in DOMAIN paper_analysis
                      THEN StatedFamily(paper_analysis.domain)
                      ELSE "Machine Learning"
        IN  [i \in 1..Len(project_plan.phases) |-> project_plan.phases[i].name]
            = [i \in 1..5 |-> _load_phase_templates[family][i].name]

\* a domain naming both vision and NLP gets the NLP phases
C4_Witness ==
    /\ Planned
    /\ get(paper_analysis, "domain", "") = "Vision and NLP"
    /\ project_plan.phases[2].name = "Core Component Development"

\* C5: the complexity label generate_plan works with is the one of the
\* user's settings.
C5_ComplexityFromSettings ==
    (Planned /\ "complexity" \in DOMAIN project_settings) =>
        project_plan.project_overview.complexity = project_settings.complexity

\* C6: with everything else fixed, the end month of the last phase does not
\* decrease when the complexity label goes one step up.
C6_SpanMonotone ==
    [][RaiseComplexity => Span(project_plan') >= Span(project_plan)]_vars

\* a plan regenerated at Expert that is strictly longer than at Advanced
C6_Witness ==
    /\ Planned
    /\ get(paper_analysis, "complexity", "") = "Expert"
    /\ get(project_settings, "duration", 20) = MinDuration
    /\ Span(project_plan) = 9

\* the tasks of phase i that were appended to the template's core tasks
AddedTasks(i) ==
    LET tasks == project_plan.phases[i].tasks
    IN  SubSeq(tasks, Len(UsedTemplates[i].core_tasks) + 1, Len(tasks))

Absent(d, key) == key \notin DOMAIN d

\* C2: generate_plan returns a plan with all eight sections whichever
\* fields of the analysis and of the settings are absent, and an absent field
\* acts as its default: domain "Computer Science", complexity "Intermediate",
\* no key concepts, no frameworks, no challenges, duration 20, team size 5.
C2_AbsentFieldsDefaulted ==
    Planned =>
        LET a == paper_analysis
            s == project_settings
            overview == project_plan.project_overview
            phases == project_plan.phases
            no_frameworks ==
                \/ Absent(a, "technical_requirements")
                \/ Absent(a.technical_requirements, "frameworks")
        IN  /\ DOMAIN project_plan =
                   {"project_overview", "phases", "technical_stack", "architecture",
                    "resources", "risks", "success_metrics", "timeline"}
            /\ Len(phases) = 5
            /\ Absent(a, "domain") =>
                   /\ overview.domain = "Computer Science"
                   /\ phases[1].name = "Data and Environment Preparation"
            /\ Absent(a, "complexity") =>
                   /\ overview.complexity = "Intermediate"
                   /\ Len(project_plan.risks) <= 6
                   /\ \A i \in 1..5 :
                          IsNearestTiesEven(Months(phases[i]),
                              UsedTemplates[i].base_duration
                                  * (IF Absent(s, "duration") THEN 20 ELSE s.duration),
                              SumBase(UsedTemplates))
            /\ Absent(s, "duration") =>
                   /\ overview.estimated_duration = "20 months"
                   /\ \A i \in 1..5 :
                          IsNearestTiesEven(Months(phases[i]),
                              UsedTemplates[i].base_duration * 20
                                  * StatedTenths(get(a, "complexity", "Intermediate")),
                              SumBase(UsedTemplates) * 10)
            /\ Absent(s, "team_size") =>
                   /\ overview.team_size = 5
                   /\ StartsWith(project_plan.resources.team, "5 team members")
            /\ Absent(a, "key_concepts") =>
                   \A i \in 1..5 : \A j \in 1..Len(AddedTasks(i)) :
                       ~StartsWith(AddedTasks(i)[j], "Implement ")
            /\ no_frameworks =>
                   /\ \A i \in 1..5 : \A j \in 1..Len(AddedTasks(i)) :
                          ~StartsWith(AddedTasks(i)[j], "Integrate ")
                   /\ Len(project_plan.technical_stack.ml_frameworks) = 3
            /\ Absent(a, "challenges") =>
                   Len(project_plan.risks) =
                       IF overview.complexity \in {"Advanced", "Expert"} THEN 6 ELSE 4

\* a plan generated from an empty analysis and empty settings
C2_Witness ==
    /\ Planned
    /\ DOMAIN paper_analysis = {}
    /\ DOMAIN project_settings = {}
    /\ Span(project_plan) = 20

\* the concept or framework an added task was made from
ItemOf(task) ==
    IF StartsWith(task, "Implement ")
    THEN SubSeq(task, Len("Implement ") + 1, Len(task) - Len(" functionality"))
    ELSE SubSeq(task, Len("Integrate ") + 1, Len(task) - Len(" framework"))

\* C8: in every phase, a concept or framework whose text occurs, in any
\* letter case, in a task that is already in the list is not appended, so no
\* concept or framework yields two tasks; the concepts Transformers,
\* Transformers, Attention yield one Transformers task and one Attention task.
C8_NoDuplicateTasks ==
    Planned =>
        \A i \in 1..Len(project_plan.phases) :
            LET tasks == project_plan.phases[i].tasks
                base  == Len(UsedTemplates[i].core_tasks)
            IN  /\ \A j \in (base + 1)..Len(tasks) : \A k \in 1..(j - 1) :
                       ~Contains(lower(tasks[k]), lower(ItemOf(tasks[j])))
                /\ get(paper_analysis, "key_concepts", <<>>)
                       = <<"Transformers", "Transformers", "Attention">>
                   => SubSeq(tasks, base + 1, base + 2)
                       = <<"Implement Transformers functionality",
                           "Implement Attention functionality">>

\* the second "Transformers" and the framework "Transformers" were both
\* skipped: one Transformers task, then Attention, then PyTorch
C8_Witness ==
    /\ Planned
    /\ get(paper_analysis, "key_concepts", <<>>)
           = <<"Transformers", "Transformers", "Attention">>
    /\ AddedTasks(1) = <<"Implement Transformers functionality",
                         "Implement Attention functionality",
                         "Integrate PyTorch framework">>

\* the request of the latest call
LastRequest == Request(paper_analysis, project_settings)

----------------------------------------------------------------------------
(* Properties of the pipeline run *)

\* the components the last run has called
Called(component) == \E i \in 1..Len(last_run.calls) : last_run.calls[i] = component

\* the entries of the session state that hold the results
ResultKeys == {"paper_analysis", "project_plan", "diagrams", "analysis_complete"}

\* C9: a run whose extracted text is empty or whitespace only calls the
\* extraction and nothing after it (no analyzer, no generate_plan, no
\* generate_diagrams), and leaves paper_analysis, project_plan, diagrams and
\* analysis_complete of the session state as they were before the run
C9_EmptyExtractionStops ==
    [][ (last_run'.outcome # "not_run" /\ strip(last_run'.extracted_text) = "")
        => /\ last_run'.calls = <<"extract_text">>
           /\ \A k \in ResultKeys :
                 /\ k \in DOMAIN session_state' <=> k \in DOMAIN session_state
                 /\ k \in DOMAIN session_state => session_state'[k] = session_state[k]
      ]_vars

\* a run with an empty extraction that follows a complete analysis
C9_Witness ==
    /\ last_run.outcome = "extraction_failed"
    /\ last_run.extracted_text = ""
    /\ session_state.analysis_complete
    /\ "project_plan" \in DOMAIN session_state

\* the reply holds one JSON document and no brace outside it
ReplyUsable(content) ==
    \E doc \in DOMAIN JsonDocuments :
        \E i \in 1..(Len(content) - Len(doc) + 1) :
            /\ SubSeq(content, i, i + Len(doc) - 1) = doc
            /\ ~Contains(SubSeq(content, 1, i - 1), "{")
            /\ ~Contains(SubSeq(content, i + Len(doc), Len(content)), "}")

\* the analyzer met a failure: no client, the API call raised, or the reply
\* is not usable
AnalyzerFailure ==
    \/ ~last_run.client
    \/ last_run.api.kind \in {"raises", "no_content"}
    \/ last_run.api.kind = "reply" /\ ~ReplyUsable(last_run.api.content)

\* the record is one of the two canned ones: fixed fields, and the abstract
\* is the fixed string or the reply
CannedRecord(analysis) ==
    /\ DOMAIN analysis = DOMAIN _create_fallback_analysis
    /\ analysis.domain = "Computer Science"
    /\ analysis.complexity = "Intermediate"
    /\ \/ analysis.abstract =
              "Analysis unavailable - please check your API configuration"
       \/ /\ last_run.api.kind = "reply"
          /\ analysis.abstract =
                 IF Len(last_run.api.content) > 500
                 THEN Prefix(last_run.api.content, 500) \o "..."
                 ELSE last_run.api.content

\* the run went on to plan generation with a canned record
ContinuedWithCanned ==
    /\ last_run.outcome = "complete"
    /\ CannedRecord(paper_analysis)
    /\ Called("generate_plan")
    /\ project_plan # NoPlan
    /\ session_state.paper_analysis = paper_analysis

\* C10 (as stated): on any failure of the analyzer (the API call raising, an
\* unusable reply, or no client because no key is configured) analyze_paper
\* returns a canned record and the run continues to plan generation
C10_AnyFailureCanned ==
    (Called("analyze_paper") /\ AnalyzerFailure) => ContinuedWithCanned

\* C10 (amended): with a client, a failure of the API call or an unusable
\* reply makes analyze_paper return a canned record and the run continues to
\* plan generation; without a client analyze_paper raises and the run ends
\* after the analyzer call, with no plan generated
C10_FailureCannedWithClient ==
    Called("analyze_paper") =>
        /\ (last_run.client /\ AnalyzerFailure) => ContinuedWithCanned
        /\ ~last_run.client =>
              /\ last_run.outcome = "error"
              /\ last_run.calls = <<"extract_text", "analyze_paper">>
              /\ project_plan = NoPlan

\* the API call raised and the run is complete with the fallback record
C10_Witness ==
    /\ Called("analyze_paper")
    /\ last_run.client
    /\ last_run.api.kind = "raises"
    /\ last_run.outcome = "complete"
    /\ paper_analysis = _create_fallback_analysis
    /\ "diagrams" \in DOMAIN session_state

----------------------------------------------------------------------------
(* Properties of the analyzer *)

\* some part of the reply is a JSON document
HasDocument(content) ==
    \E doc \in DOMAIN JsonDocuments : Contains(content, doc)

\* the reply cut to its first 500 characters, with the mark of the cut
Truncated(content) ==
    IF Len(content) > 500 THEN SubSeq(content, 1, 500) \o "..." ELSE content

FixedAbstract == "Analysis unavailable - please check your API configuration"

\* C11: a reply without a JSON object, or with one that cannot be decoded,
\* yields the parse-fallback record, whose abstract is the reply cut to its
\* first 500 characters; an exception of the API call yields the
\* transport-fallback record, whose abstract is the fixed string; the two
\* records are never equal
C11_FallbacksDistinguishable ==
    (Called("analyze_paper") /\ last_run.client) =>
        /\ (last_run.api.kind = "reply" /\ ~HasDocument(last_run.api.content)) =>
              /\ last_run.outcome = "returned"
              /\ paper_analysis.title = "Research Paper Analysis"
              /\ paper_analysis.abstract = Truncated(last_run.api.content)
              /\ paper_analysis # _create_fallback_analysis
        /\ last_run.api.kind = "raises" =>
              /\ last_run.outcome = "returned"
              /\ paper_analysis.title = "Research Paper"
              /\ paper_analysis.abstract = FixedAbstract
              /\ \A content \in ReplyTexts :
                    paper_analysis # _create_structured_analysis_from_text(content)

----------------------------------------------------------------------------
(* Properties of the domain-conditional parts of the plan *)

\* the family whose template has the names of the plan's phases
PhaseFamily ==
    CHOOSE family \in DOMAIN _load_phase_templates :
        [i \in 1..Len(project_plan.phases) |-> project_plan.phases[i].name]
        = [i \in 1..Len(_load_phase_templates[family]) |->
              _load_phase_templates[family][i].name]

\* the architecture skeleton of each family
FamilyArchitecture ==
    "NLP" :>
        [ data_layer        |-> "Text preprocessing and tokenization pipeline",
          model_layer       |-> "Neural language models and transformers",
          application_layer |-> "NLP applications and APIs",
          interface_layer   |-> "Web interface and user interaction" ]
    @@ "Computer Vision" :>
        [ data_layer        |-> "Image preprocessing and augmentation pipeline",
          model_layer       |-> "Convolutional neural networks and vision models",
          application_layer |-> "Computer vision applications and APIs",
          interface_layer   |-> "Image upload interface and visualization" ]
    @@ "Machine Learning" :>
        [ data_layer        |-> "Data preprocessing and feature engineering",
          model_layer       |-> "Machine learning models and algorithms",
          application_layer |-> "Prediction services and APIs",
          interface_layer   |-> "Dashboard and user interface" ]

\* C12: the architecture of a plan has exactly the four layers data_layer,
\* model_layer, application_layer and interface_layer, and their descriptions
\* are those of the family whose template produced the plan's phases
C12_ArchitectureOfPhaseFamily ==
    Planned =>
        /\ DOMAIN project_plan.architecture =
               {"data_layer", "model_layer", "application_layer", "interface_layer"}
        /\ project_plan.architecture = FamilyArchitecture[PhaseFamily]

----------------------------------------------------------------------------
(* Properties of the diagrams *)

Drawn == diagrams # NoDiagrams

\* the ids of the nodes and of the ends of the edges
GraphIds(nodes, edges) ==
    {node.id : node \in Range(nodes)}
    \cup {edge.from : edge \in Range(edges)}
    \cup {edge.to : edge \in Range(edges)}

\* the names and ids of the bars of the Gantt chart
GanttIdentifiers ==
    UNION { {bar.name, bar.id} :
            bar \in UNION {Range(section.bars) :
                           section \in Range(diagrams["gantt_chart.md"])} }

WorkflowIdentifiers ==
    LET workflow == diagrams["workflow_diagram.md"]
    IN  GraphIds(workflow.nodes, workflow.edges)
        \cup Range(workflow.classes.phaseBox)
        \cup Range(workflow.classes.endpoint)

ArchitectureIdentifiers ==
    LET architecture == diagrams["architecture_diagram.md"]
    IN  GraphIds(architecture.nodes, architecture.edges)
        \cup Range(architecture.classes.layer)

FlowchartIdentifiers ==
    LET flowchart == diagrams["phase_flowchart.md"]
    IN  GraphIds(flowchart.nodes, flowchart.edges)
        \cup UNION {GraphIds(subgraph.nodes, subgraph.edges) :
                    subgraph \in Range(flowchart.subgraphs)}

\* C13: no identifier written into the four diagrams (the names and ids of
\* the Gantt bars, the workflow Phase and Decision ids, the architecture
\* component ids, the P<i>_* ids of the phase flowchart) contains a space
C13_NoSpaceInIdentifiers ==
    Drawn =>
        \A id \in GanttIdentifiers \cup WorkflowIdentifiers
                  \cup ArchitectureIdentifiers \cup FlowchartIdentifiers :
            ~Contains(id, " ")

\* the diagrams of a plan whose phase and task names contain spaces
C13_Witness ==
    /\ Drawn
    /\ project_plan.phases[1].name = "Foundation and Setup"
    /\ project_plan.phases[1].tasks[1] = "Set up development environment"
    /\ diagrams["gantt_chart.md"][1].bars[1].name = "Foundation_and_Setup"
    /\ diagrams["gantt_chart.md"][1].bars[2].name = "Set_up_development_e"

----------------------------------------------------------------------------
(* Properties of the customized tasks, deliverables and criteria *)

\* the stated loop: an item is skipped exactly when one single task of the
\* list so far contains it, letter case ignored
RECURSIVE StatedAppend(_, _, _, _)
StatedAppend(tasks, names, before, after) ==
    IF Len(names) = 0 THEN tasks
    ELSE StatedAppend(
            IF \E k \in 1..Len(tasks) :
                   Contains(lower(tasks[k]), lower(Head(names)))
            THEN tasks
            ELSE Append(tasks, before \o Head(names) \o after),
            Tail(names), before, after)

\* C14: in every phase each of the first 3 key concepts is skipped exactly
\* when some single task already in the list contains it as a
\* case-insensitive substring and is appended as "Implement {concept}
\* functionality" otherwise, and likewise each of the first 2 frameworks
\* ("Integrate {framework} framework")
C14_SkippedIffSingleTaskContains ==
    Planned =>
        LET key_concepts == get(paper_analysis, "key_concepts", <<>>)
            frameworks   == get(get(paper_analysis, "technical_requirements",
                                    EmptyDict), "frameworks", <<>>)
        IN  \A i \in 1..Len(project_plan.phases) :
                project_plan.phases[i].tasks =
                    StatedAppend(
                        StatedAppend(UsedTemplates[i].core_tasks,
                                     Prefix(key_concepts, 3),
                                     "Implement ", " functionality"),
                        Prefix(frameworks, 2), "Integrate ", " framework")

\* the names of the phases of a template family
FamilyNames(family) ==
    {_load_phase_templates[family][i].name :
        i \in 1..Len(_load_phase_templates[family])}

\* C15: the deliverables table and the success-criteria table have five
\* entries, keyed by the phase names of the default (Machine Learning)
\* family, so every phase of a plan built from the default family gets its
\* entries of the two tables and not the generic placeholder entry
C15_DefaultFamilyInTables ==
    (Planned /\ PhaseFamily = "Machine Learning") =>
        /\ DOMAIN base_deliverables = FamilyNames("Machine Learning")
        /\ DOMAIN base_criteria = FamilyNames("Machine Learning")
        /\ \A i \in 1..Len(project_plan.phases) :
              LET phase == project_plan.phases[i]
              IN  /\ phase.name \in DOMAIN base_deliverables
                  /\ phase.name \in DOMAIN base_criteria
                  /\ phase.deliverables[1] # "Phase deliverables"
                  /\ phase.success_criteria[1] # "Phase objectives met"

NLPDeliverables ==
    <<"Text preprocessing pipeline", "Language model implementation">>

VisionDeliverables == <<"Image preprocessing pipeline", "Computer vision model">>

\* the last n elements of a list
Suffix(list, n) == SubSeq(list, Len(list) - n + 1, Len(list))

\* C16: when the domain contains "NLP" or "Vision" in any letter case, every
\* phase whose name contains "Core" ends its deliverables with the two of the
\* domain (text preprocessing pipeline and language model for NLP, image
\* preprocessing pipeline and computer vision model for Vision), and a phase
\* whose name does not contain "Core" has none of them
C16_CoreDeliverables ==
    (Planned /\ "domain" \in DOMAIN paper_analysis) =>
        LET domain == lower(paper_analysis.domain)
            extras == IF Contains(domain, "nlp") THEN NLPDeliverables
                      ELSE IF Contains(domain, "vision") THEN VisionDeliverables
                      ELSE <<>>
        IN  \A i \in 1..Len(project_plan.phases) :
                LET phase == project_plan.phases[i]
                IN  IF Contains(phase.name, "Core")
                    THEN /\ Len(phase.deliverables) >= Len(extras)
                         /\ Suffix(phase.deliverables, Len(extras)) = extras
                    ELSE Range(phase.deliverables)
                         \cap (Range(NLPDeliverables) \cup Range(VisionDeliverables))
                         = {}

\* the frameworks the analysis names
AnalysisFrameworks ==
    get(get(paper_analysis, "technical_requirements", EmptyDict),
        "frameworks", <<>>)

\* the elements of technical_stack.ml_frameworks, which is the baseline list
\* when the analysis names no framework and the deduplicated list otherwise
MlFrameworks ==
    IF Len(AnalysisFrameworks) > 0
    THEN DOMAIN project_plan.technical_stack.ml_frameworks
    ELSE Range(project_plan.technical_stack.ml_frameworks)

BaselineMetrics ==
    <<"Model accuracy > 85%", "System response time < 2 seconds",
      "Code coverage > 80%", "Performance benchmarks achieved">>

VisionMetrics ==
    <<"Image classification accuracy > 90%", "Object detection mAP > 0.5",
      "Real-time processing capability">>

\* C17: when the domain contains "vision" in any letter case and not "NLP",
\* the plan carries the Vision extras: technical_stack has cv_libraries and
\* OpenCV among ml_frameworks, resources has the data_storage entry for image
\* datasets, and technical_metrics are the four baseline metrics followed by
\* the three vision metrics
C17_VisionExtrasMerged ==
    ( /\ Planned
      /\ "domain" \in DOMAIN paper_analysis
      /\ Contains(lower(paper_analysis.domain), "vision")
      /\ ~Contains(lower(paper_analysis.domain), "nlp") ) =>
        /\ "cv_libraries" \in DOMAIN project_plan.technical_stack
        /\ "OpenCV" \in MlFrameworks
        /\ "data_storage" \in DOMAIN project_plan.resources
        /\ project_plan.resources.data_storage =
               "Image datasets and pre-trained vision models"
        /\ project_plan.success_metrics.technical_metrics =
               BaselineMetrics \o VisionMetrics

----------------------------------------------------------------------------
(* Properties of the risks, the technical stack and the timeline *)

BaselineRisks ==
    <<"Technical complexity exceeding team capabilities",
      "Data quality and availability issues",
      "Performance not meeting requirements",
      "Timeline delays due to unforeseen challenges">>

ComplexityRisks ==
    <<"High computational resource requirements",
      "Keeping up with rapidly evolving research">>

Min(a, b) == IF a <= b THEN a ELSE b

\* C18: the risks are the 4 baseline risks, then the 2 complexity risks
\* exactly when the complexity is Advanced or Expert, then one entry for each
\* of the first 2 challenges of the analysis with the mitigation "Implement
\* targeted solutions and monitoring"; their number is
\* 4 + (2 if Advanced or Expert, else 0) + min(2, number of challenges)
C18_RisksInOrder ==
    Planned =>
        LET risks      == project_plan.risks
            challenges == get(paper_analysis, "challenges", <<>>)
            stated     == BaselineRisks
                          \o (IF project_plan.project_overview.complexity
                                 \in {"Advanced", "Expert"}
                              THEN ComplexityRisks ELSE <<>>)
                          \o Prefix(challenges, 2)
        IN  /\ Len(risks) = 4 + (IF project_plan.project_overview.complexity
                                    \in {"Advanced", "Expert"} THEN 2 ELSE 0)
                              + Min(2, Len(challenges))
            /\ [k \in 1..Len(risks) |-> risks[k].risk] = stated
            /\ \A k \in (Len(risks) - Min(2, Len(challenges)) + 1)..Len(risks) :
                   risks[k].mitigation = "Implement targeted solutions and monitoring"

\* an Expert plan of an analysis with three challenges has 8 risks, the
\* last two being the first two challenges
C18_Witness ==
    /\ Planned
    /\ project_plan.project_overview.complexity = "Expert"
    /\ Len(get(paper_analysis, "challenges", <<>>)) = 3
    /\ Len(project_plan.risks) = 8
    /\ project_plan.risks[7].risk = paper_analysis.challenges[1]
    /\ project_plan.risks[8].risk = paper_analysis.challenges[2]

\* the baseline frameworks of lines 429, 432 and 435; the test of line 430 is
\* never true of an upper-cased domain, so the list of line 432 is never the
\* baseline
StatedBaseline ==
    IF Contains(upper(get(paper_analysis, "domain", "")), "NLP")
    THEN <<"TensorFlow", "PyTorch", "Transformers (Hugging Face)">>
    ELSE <<"Scikit-learn", "TensorFlow", "PyTorch">>

\* no element occurs twice in technical_stack.ml_frameworks
NoFrameworkTwice ==
    LET ml_frameworks == project_plan.technical_stack.ml_frameworks
    IN  IF Len(AnalysisFrameworks) > 0
        THEN \A x \in DOMAIN ml_frameworks : ml_frameworks[x] = 1
        ELSE \A i, j \in 1..Len(ml_frameworks) :
                 i # j => ml_frameworks[i] # ml_frameworks[j]

MaxMonths == 80

\* the number of months written in a phase's duration, "<n> months"
DurationMonths(phase) ==
    CHOOSE n \in 0..MaxMonths : phase.duration = ToString(n) \o " months"

RECURSIVE SumDurations(_)
SumDurations(phases) ==
    IF Len(phases) = 0 THEN 0
    ELSE DurationMonths(Head(phases)) + SumDurations(Tail(phases))

\* the largest end_month of the phases
LargestEndMonth(phases) ==
    CHOOSE m \in {phases[i].end_month : i \in 1..Len(phases)} :
        \A i \in 1..Len(phases) : phases[i].end_month <= m

\* C20: the timeline's total_duration is the largest end_month of the phases,
\* written "<n> months", which is the last phase's end_month and the sum of
\* the adjusted phase durations; there is one milestone per phase, in phase
\* order, named "<phase name> Completion" with the phase's end_month as its
\* month, the milestone months increase strictly and the last one is the
\* total duration
C20_TimelineOfPhases ==
    Planned =>
        LET phases     == project_plan.phases
            timeline   == project_plan.timeline
            milestones == timeline.milestones
            total      == LargestEndMonth(phases)
        IN  /\ timeline.total_duration = ToString(total) \o " months"
            /\ total = phases[Len(phases)].end_month
            /\ \A i \in 1..Len(phases) :
                   \E n \in 1..MaxMonths :
                       phases[i].duration = ToString(n) \o " months"
            /\ total = SumDurations(phases)
            /\ Len(milestones) = Len(phases)
            /\ \A i \in 1..Len(phases) :
                   /\ milestones[i].name = phases[i].name \o " Completion"
                   /\ milestones[i].month = phases[i].end_month
            /\ \A i \in 1..(Len(milestones) - 1) :
                   milestones[i].month < milestones[i + 1].month
            /\ milestones[Len(milestones)].month = total

\* an Expert plan of 36 months: the phases sum to more than 36 months and
\* the last milestone is at the total
C20_Witness ==
    /\ Planned
    /\ Len(project_plan.phases) = 5
    /\ project_plan.project_overview.complexity = "Expert"
    /\ SumDurations(project_plan.phases) > MaxDuration
    /\ project_plan.timeline.milestones[5].month = SumDurations(project_plan.phases)
    /\ project_plan.timeline.milestones[1].month > 1

----------------------------------------------------------------------------
(* Properties of the Gantt chart and of the workflow graph *)

\* the sections of the Gantt chart
GanttSections == diagrams["gantt_chart.md"]

\* the length the chart gives each task bar of a phase: the phase's months
\* divided by the number of its tasks, rounded down, at least 1
StatedTaskLength(phase) ==
    IF Months(phase) \div Len(phase.tasks) >= 1
    THEN Months(phase) \div Len(phase.tasks) ELSE 1

\* C21: the Gantt chart has one section and one bar per phase, the bar
\* starting at the phase's start_month with the length
\* end_month - start_month + 1, followed by one task bar for each of the
\* phase's first 3 tasks (fewer if the phase has fewer); each task bar has the
\* length max(1, duration // task_count), task_count being the number of all
\* tasks of the phase, and task bar j (from 0) starts at
\* start_month + j * that length
C21_GanttBars ==
    Drawn =>
        LET phases == project_plan.phases
        IN  /\ Len(GanttSections) = Len(phases)
            /\ \A i \in 1..Len(phases) :
                 LET phase == phases[i]
                     bars  == GanttSections[i].bars
                 IN  /\ bars[1].start = phase.start_month
                     /\ bars[1].duration = phase.end_month - phase.start_month + 1
                     /\ Len(bars) = 1 + Min(3, Len(phase.tasks))
                     /\ \A j \in 0..(Min(3, Len(phase.tasks)) - 1) :
                          /\ bars[j + 2].duration = StatedTaskLength(phase)
                          /\ bars[j + 2].start =
                                 phase.start_month + j * StatedTaskLength(phase)

\* a phase of more than three tasks that is shorter than its number of
\* tasks: three task bars of one month each
C21_Witness ==
    /\ Drawn
    /\ \E i \in 1..Len(project_plan.phases) :
          /\ Len(project_plan.phases[i].tasks) > 3
          /\ Months(project_plan.phases[i]) < Len(project_plan.phases[i].tasks)
          /\ Len(GanttSections[i].bars) = 4
          /\ GanttSections[i].bars[4].duration = 1
          /\ GanttSections[i].bars[4].start = project_plan.phases[i].start_month + 2

\* C22: every task bar of the Gantt chart lies inside the bar of its phase:
\* it starts no earlier than the phase's start_month and ends no later than
\* start_month plus the phase's months
C22_TaskBarsInsidePhase ==
    Drawn =>
        \A i \in 1..Len(project_plan.phases) :
            LET phase == project_plan.phases[i]
                bars  == GanttSections[i].bars
            IN  \A j \in 2..Len(bars) :
                    /\ bars[j].start >= phase.start_month
                    /\ bars[j].start + bars[j].duration
                           <= phase.start_month + Months(phase)

\* the workflow graph
Workflow == diagrams["workflow_diagram.md"]

\* the id of the k-th phase node
PhaseId(k) == "Phase" \o ToString(k)

\* the position, from 1, of the phase at the 0-based index floor(n/2)
Middle(n) == n \div 2 + 1

\* the edges of the chain Start -> Phase1 -> ... -> Phase_n -> End
ChainEdges(n) ==
    {Edge("Start", PhaseId(1), "")}
    \cup {Edge(PhaseId(k), PhaseId(k + 1), "") : k \in 1..(n - 1)}
    \cup {Edge(PhaseId(n), "End", "")}

\* the edges of the decision node of the phase at position m
DecisionEdges(m) ==
    {Edge(PhaseId(m), "Decision" \o ToString(m), ""),
     Edge("Decision" \o ToString(m), PhaseId(m + 1), "Pass"),
     Edge("Decision" \o ToString(m), PhaseId(m), "Fail")}

\* C23: for n >= 1 phases the workflow graph is the chain
\* Start -> Phase1 -> ... -> Phase_n -> End, and exactly the phase at the
\* 0-based index floor(n/2) has a decision node, with an edge from the phase
\* to it, a "Pass" edge from it to the next phase and a "Fail" edge from it
\* back to the phase
C23_ChainWithOneDecision ==
    (Drawn /\ Len(project_plan.phases) >= 1) =>
        LET n == Len(project_plan.phases)
        IN  /\ Range(Workflow.edges) = ChainEdges(n) \cup DecisionEdges(Middle(n))
            /\ Len(Workflow.edges) = (n + 1) + 3
            /\ {node.id : node \in Range(Workflow.nodes)}
                   \ ({"Start", "End"} \cup {PhaseId(k) : k \in 1..n})
                 = {"Decision" \o ToString(Middle(n))}
            /\ \E k \in 1..n :
                   Edge("Decision" \o ToString(Middle(n)), PhaseId(k), "Pass")
                       \in Range(Workflow.edges)
                   /\ k = Middle(n) + 1

\* C24: for n >= 1 phases every edge of the workflow graph has both ends
\* among the nodes the graph defines (Start, End, Phase1..Phase_n and the
\* decision node); the "Pass" edge targets no phase after Phase_n
C24_EdgesBetweenDefinedNodes ==
    (Drawn /\ Len(project_plan.phases) >= 1) =>
        LET n       == Len(project_plan.phases)
            defined == {"Start", "End", "Decision" \o ToString(Middle(n))}
                       \cup {PhaseId(k) : k \in 1..n}
        IN  \A edge \in Range(Workflow.edges) :
                edge.from \in defined /\ edge.to \in defined

----------------------------------------------------------------------------
(* Properties of the reply parser and of the session *)

\* the places of the reply where a JSON document starts
DocumentStarts(content) ==
    { i \in 1..Len(content) :
        \E doc \in DOMAIN JsonDocuments :
            /\ i + Len(doc) - 1 <= Len(content)
            /\ SubSeq(content, i, i + Len(doc) - 1) = doc }

\* the first JSON document of the reply
FirstDocument(content) ==
    LET first == CHOOSE i \in DocumentStarts(content) :
                     \A k \in DocumentStarts(content) : i <= k
    IN  CHOOSE doc \in DOMAIN JsonDocuments :
            /\ first + Len(doc) - 1 <= Len(content)
            /\ SubSeq(content, first, first + Len(doc) - 1) = doc

\* C25: for a reply that holds at least one well-formed JSON object,
\* _parse_analysis_response returns the decoding of the first such object,
\* whatever text, braces or further JSON objects follow it
C25_FirstObjectDecoded ==
    ( /\ Called("analyze_paper")
      /\ last_run.client
      /\ last_run.api.kind = "reply"
      /\ HasDocument(last_run.api.content) ) =>
        /\ last_run.outcome = "returned"
        /\ paper_analysis = JsonDocuments[FirstDocument(last_run.api.content)]

\* the settings the sidebar can have written to the session state
SidebarSettings ==
    { [duration |-> w.duration, team_size |-> w.team_size,
       complexity |-> w.complexity] : w \in WidgetChoices \cup {DefaultWidgets} }

\* the results held in the session state belong together: the diagrams are
\* those of the plan, and the plan is the one of the analysis
ResultsConsistent ==
    /\ {"paper_analysis", "project_plan", "diagrams"} \subseteq DOMAIN session_state
    /\ session_state.diagrams = generate_diagrams(session_state.project_plan)
    /\ \E settings \in SidebarSettings :
           session_state.project_plan =
               generate_plan(_load_phase_templates, session_state.paper_analysis,
                             settings)

\* C26: over any sequence of runs of one session, results are shown only
\* while analysis_complete is true; analysis_complete becomes true only at
\* the end of a run that called extract_text, analyze_paper, generate_plan
\* and generate_diagrams in this order, and never returns to false; whenever
\* it is true the stored diagrams are those generated from the stored plan
\* and the stored plan is the one generated from the stored analysis
C26_ResultsOfOneRun ==
    /\ [](results_shown => session_state.analysis_complete)
    /\ [](session_state.analysis_complete => ResultsConsistent)
    /\ [][ /\ (~session_state.analysis_complete /\ session_state'.analysis_complete)
                => last_run'.calls = <<"extract_text", "analyze_paper",
                                       "generate_plan", "generate_diagrams">>
           /\ session_state.analysis_complete => session_state'.analysis_complete
         ]_vars

\* a run ended by an exception of generate_plan after a complete run: the
\* results of the complete run are still held and shown
C26_Witness ==
    /\ last_run.outcome = "error"
    /\ last_run.calls = <<"extract_text", "analyze_paper", "generate_plan">>
    /\ session_state.analysis_complete
    /\ results_shown
    /\ ResultsConsistent

----------------------------------------------------------------------------
(* Properties of the text extraction *)

IsSpace(t, i) == SubSeq(t, i, i) \in Whitespace

\* where the words of t, its runs of characters that are not whitespace,
\* start
WordStarts(t) ==
    { i \in 1..Len(t) : ~IsSpace(t, i) /\ (i = 1 \/ IsSpace(t, i - 1)) }

\* the word of t that starts at i
WordAt(t, i) ==
    SubSeq(t, i, CHOOSE j \in i..Len(t) :
                     /\ \A k \in i..j : ~IsSpace(t, k)
                     /\ (j = Len(t) \/ IsSpace(t, j + 1)))

\* the words of t that start at starts, one space between them
RECURSIVE JoinWords(_, _)
JoinWords(t, starts) ==
    IF starts = {} THEN ""
    ELSE LET first == CHOOSE i \in starts : \A k \in starts : i <= k
         IN  WordAt(t, first)
             \o (IF starts = {first} THEN ""
                 ELSE " " \o JoinWords(t, starts \ {first}))

\* t with every run of whitespace collapsed to one space, and trimmed
Collapsed(t) == JoinWords(t, WordStarts(t))

\* the length of t without its leading and trailing whitespace
TrimmedLength(t) ==
    LET inked == {i \in 1..Len(t) : ~IsSpace(t, i)}
    IN  IF inked = {} THEN 0
        ELSE (CHOOSE i \in inked : \A k \in inked : k <= i)
             - (CHOOSE i \in inked : \A k \in inked : i <= k) + 1

\* C27: extract_text returns and does not raise; its result is clean(primary)
\* when the trimmed text of the primary reader has at least 100 characters
\* and clean(secondary) otherwise, clean collapsing every run of whitespace
\* (newlines included) to one space and trimming; the result has no
\* whitespace at its ends and no two whitespace characters in a row, and
\* cleaning it again leaves it as it is
C27_CleanedTextOfOneReader ==
    Called("extract_text") =>
        LET primary   == _extract_with_pdfplumber(last_run.file)
            secondary == _extract_with_pypdf2(last_run.file)
            result    == last_run.extracted_text
        IN  /\ last_run.outcome = "extracted"
            /\ result = IF TrimmedLength(primary) >= 100
                        THEN Collapsed(primary) ELSE Collapsed(secondary)
            /\ Len(result) > 0 =>
                   ~IsSpace(result, 1) /\ ~IsSpace(result, Len(result))
            /\ \A i \in 1..(Len(result) - 1) :
                   ~(IsSpace(result, i) /\ IsSpace(result, i + 1))
            /\ _clean_text(result) = result

\* the primary reader gives two pages of more than 100 characters together,
\* which are used, their inner whitespace collapsed
C27_Witness ==
    /\ Called("extract_text")
    /\ last_run.file.pdfplumber = <<ShortPage, LongPage>>
    /\ last_run.file.pypdf2 = <<ShortPage>>
    /\ Len(last_run.extracted_text) > 100
    /\ last_run.extracted_text # _extract_with_pdfplumber(last_run.file)
    /\ StartsWith(last_run.extracted_text, "Attention Is All You Need We propose")

\* C28: extract_text returns the empty string only when neither reader gave
\* any character that is not whitespace; when the primary reader gives some
\* such text, even fewer than 100 characters, the result is not empty
C28_EmptyOnlyWithoutText ==
    (Called("extract_text") /\ last_run.extracted_text = "") =>
        /\ TrimmedLength(_extract_with_pdfplumber(last_run.file)) = 0
        /\ TrimmedLength(_extract_with_pypdf2(last_run.file)) = 0

----------------------------------------------------------------------------
(* Properties of the planner's templates and of the rounding *)

\* the tasks generate_plan may append for the analysis
TasksOfAnalysis(analysis) ==
    { "Implement " \o concept \o " functionality" :
        concept \in Range(get(analysis, "key_concepts", <<>>)) }
    \cup { "Integrate " \o framework \o " framework" :
             framework \in Range(get(get(analysis, "technical_requirements",
                                         EmptyDict), "frameworks", <<>>)) }

\* C29: generate_plan leaves the planner's phase_templates unchanged: after
\* any sequence of calls on one planner every template entry has the
\* core_tasks, name and base_duration it was loaded with, and the tasks of a
\* plan are template tasks or tasks of the concepts and frameworks of the
\* call's own analysis, never those appended for an earlier call
C29_TemplatesUnchanged ==
    /\ DOMAIN phase_templates = DOMAIN _load_phase_templates
    /\ \A family \in DOMAIN phase_templates :
          /\ Len(phase_templates[family]) = Len(_load_phase_templates[family])
          /\ \A i \in 1..Len(phase_templates[family]) :
                LET entry  == phase_templates[family][i]
                    loaded == _load_phase_templates[family][i]
                IN  /\ entry.core_tasks = loaded.core_tasks
                    /\ entry.name = loaded.name
                    /\ entry.base_duration = loaded.base_duration
    /\ Planned =>
          LET loaded == _load_phase_templates[
                            template_key(get(paper_analysis, "domain",
                                             "Machine Learning"))]
          IN  \A i \in 1..Len(project_plan.phases) :
                  Range(project_plan.phases[i].tasks)
                      \subseteq Range(loaded[i].core_tasks)
                                \cup TasksOfAnalysis(paper_analysis)

\* a call without concepts or frameworks that follows, on the same planner
\* and the same family, a call that appended the Transformers task
C29_Witness ==
    /\ Planned
    /\ get(paper_analysis, "key_concepts", <<>>) = <<>>
    /\ history[LastRequest].calls = 1
    /\ \E r \in DOMAIN history :
          /\ r.analysis.key_concepts = <<"Transformers">>
          /\ template_key(r.analysis.domain) = template_key(paper_analysis.domain)
          /\ \E i \in 1..Len(history[r].plan.phases) :
                "Implement Transformers functionality"
                    \in Range(history[r].plan.phases[i].tasks)
    /\ \A i \in 1..Len(project_plan.phases) :
          project_plan.phases[i].tasks = _load_phase_templates["NLP"][i].core_tasks

\* C30: the rounding drift is bounded: the span of the plan, the sum of the
\* adjusted phase durations, differs from duration * complexity multiplier
\* by at most 2.5 months, and every rounded phase duration is at least 1
\* already, so that the floor of max(1, round(...)) never decides
C30_DriftBounded ==
    Planned =>
        LET phases   == project_plan.phases
            duration == get(project_settings, "duration", 20)
            tenths   == StatedTenths(get(paper_analysis, "complexity", "Intermediate"))
            total    == SumBase(UsedTemplates)
            span     == SumDurations(phases)
        IN  /\ 10 * span - duration * tenths <= 25
            /\ duration * tenths - 10 * span <= 25
            /\ \A i \in 1..Len(phases) :
                   \E r \in 1..MaxMonths :
                       /\ IsNearestTiesEven(r, UsedTemplates[i].base_duration
                                                   * duration * tenths, total * 10)
                       /\ DurationMonths(phases[i]) = r

\* the largest drift: 23 months at 0.8 are 18.4 months, the phases sum to 20
C30_Witness ==
    /\ Planned
    /\ get(project_settings, "duration", 20) = 23
    /\ get(paper_analysis, "complexity", "") = "Beginner"
    /\ SumDurations(project_plan.phases) = 20
    /\ Span(project_plan) = 20

====
